---- MODULE Spec2Model ----
(***************************************************************************)
(* A model of swirl's job runner: the background_jobs table with its row   *)
(* locks, the thread pool, the worker task of Runner::get_single_job, the  *)
(* bounded event channel and the orchestrator Runner::run_all_pending_jobs *)
(* together with Runner::check_for_failed_jobs.                            *)
(*                                                                         *)
(* Time is counted in whole minutes.  A worker's transaction keeps its     *)
(* write private until the commit, which applies it and releases the row   *)
(* lock in one step; a rollback releases the lock and discards the write.  *)
(***************************************************************************)
EXTENDS Integers, Sequences, FiniteSets, TLC

\* ------------------------------------------------------------------ bounds
\* What the runner's surroundings do, all told: rows enqueued, calls of
\* run_all_pending_jobs, advances of the clock and operations the
\* database or the connection pool fails.
MaxEvents == 3

\* Runner::builder(pool, ()).thread_count(2)
thread_count == 2

\* ------------------------------------------------------- the program's data
\* thread_pool.max_count(): the pool is built with thread_count threads.
max_threads == thread_count

Threads == 1..max_threads

NoJob == 0

\* The default of the last_retry column: a time far enough in the past that
\* the one-minute backoff of a row that never failed has elapsed at time 0.
Epoch == (0 - 2^0) - 1

\* The statically registered jobs (inventory::iter::<JobVTable>), each with its
\* tag, the environment type it declares and the kind of database argument
\* its handler declares (ConnectionArg).
Inventory ==
    { [job_type |-> "DummyJob",   env_type |-> "unit",
       connection_arg |-> "None"],
      [job_type |-> "BarrierJob", env_type |-> "Barrier",
       connection_arg |-> "None"],
      [job_type |-> "takes_only_conn", env_type |-> "unit",
       connection_arg |-> "SingleConnection"] }

\* The environment type of the runner (Runner<()>).
RunnerEnv == "unit"

\* A load that takes every entry of the inventory, whatever its env_type.
RegistryLoadUnfiltered == Inventory

\* Registry::load: the entries of the inventory whose env_type is the runner's.
RegistryLoad == { v \in Inventory : v.env_type = RunnerEnv }

\* Registry::get: the entry for a job type, if any.
RegistryGet(job_type) == { v \in RegistryLoad : v.job_type = job_type }

\* T::perform is the user's code: it returns Ok(()), returns Err or panics.
Perform == {"ok", "err", "panic"}

\* The job types whose handler body is wrapped in pool.with_connection.
ConnectionJobTypes ==
    { v.job_type : v \in { w \in Inventory :
                              w.connection_arg = "SingleConnection" } }

\* The tags a row can carry where a handler is one step: the job types
\* registered in the process, for the runner's environment type or another,
\* whose handlers take no connection, and "Foo", which no job registers (the
\* rows of create_dummy_job).  Rows of ConnectionJobTypes are enqueued where
\* the handler's own connection is followed (PoolSpec).
JobTypes ==
    ({ v.job_type : v \in Inventory } \ ConnectionJobTypes) \cup {"Foo"}

VARIABLES
    table,          \* background_jobs: a set of rows [id, job_type, data,
                    \* retries, last_retry]
    locks,          \* ids of the rows some open transaction holds FOR UPDATE
    nextId,         \* the identity sequence of background_jobs.id
    now,            \* the database clock, in minutes
    ticks,          \* how often the clock was seen to advance
    faults,         \* operations the database or the connection pool failed
    queue,          \* tasks handed to thread_pool.execute and not yet started,
                    \* each the number of the run whose sender it holds
    threads,        \* the pool's threads, each idle or inside one worker task
    panic_count,    \* thread_pool.panic_count()
    chan,           \* the buffer of the current run's event channel
    runs,           \* calls of run_all_pending_jobs so far
    main,           \* the caller's thread: where it is, pending_messages, results
    history,        \* what has happened since the current call of
                    \* run_all_pending_jobs began, a subset of {"enqueue",
                    \* "clock", "rollback", "none"}: a row was enqueued, the
                    \* clock advanced, a transaction holding a row lock was
                    \* rolled back, the locking query of one of the call's
                    \* workers found no row
    expansion       \* one #[swirl::background_job] declaration: its parameter
                    \* list, what the macro made of it, and a job of it on
                    \* its way from the enqueue helper to the handler

vars == <<table, locks, nextId, now, ticks, faults, queue, threads, panic_count,
          chan, runs, main, history, expansion>>

Ids(tbl) == { r.id : r \in tbl }

Row(tbl, id) == CHOOSE r \in tbl : r.id = id

\* JobArgs before the loop over the inputs: env_arg = None (0 stands for no
\* parameter), connection_arg = ConnectionArg::None, args empty.  A field
\* error holds the diagnostic of a failed expansion.
EmptyJobArgs ==
    [error |-> "", env_arg |-> 0,
     connection_arg |-> [kind |-> "None", pat |-> 0], args |-> <<>>]

\* No declaration has been expanded.
NoExpansion ==
    [pc |-> "none", decl |-> <<>>, job |-> EmptyJobArgs, values |-> <<>>,
     data |-> {}, received |-> <<>>]

IdleThread ==
    [pc |-> "idle", run |-> 0, job |-> NoJob, job_type |-> "none", ev |-> "none",
     result |-> "none", conns |-> 0]

\* thread_pool.active_count(): the threads inside a task.
active_count == Cardinality({ t \in Threads : threads[t].pc # "idle" })

\* A receiver that outlives the call that made it: kept until the next call
\* makes another.
ReceiverAliveOnceCreated(r) == r = runs

\* Whether the receiver of the channel of run r is still alive.
ReceiverAlive(r) == r = runs /\ main.pc \in {"submit", "recv"}

\* No result: the call has not returned, or its result has been dropped.
NoResult == [tag |-> "none", failed_jobs |-> 0]

Init ==
    /\ table = {}
    /\ locks = {}
    /\ nextId = 1
    /\ now = 0
    /\ ticks = 0
    /\ faults = 0
    /\ queue = <<>>
    /\ threads = [t \in Threads |-> IdleThread]
    /\ panic_count = 0
    /\ chan = <<>>
    /\ runs = 0
    /\ main = [pc |-> "idle", pending_messages |-> 0, run_result |-> "none",
               check |-> NoResult]
    /\ history = {}
    /\ expansion = NoExpansion


\* What the surroundings have done so far.
EnvEvents == (nextId - 1) + runs + ticks + faults

\* The history with one more entry, if a call of run_all_pending_jobs is under
\* way.
Noted(what) ==
    IF main.pc \in {"submit", "recv"} THEN history \cup {what} ELSE history

\* ------------------------------------------------------------ the storage
\* The backoff of a row that failed `retries` times: 1 minute * 2^retries.
\* A backoff that grows by a minute with each retry.
BackoffLinear(retries) == retries

Backoff(retries) == 2^retries

\* The filter of find_next_unlocked_job: last_retry < now() - backoff.
Eligible(r, t) == r.last_retry < t - Backoff(r.retries)

\* The query ordered by id descending: the latest-created candidate.
find_next_unlocked_job_latest(tbl, lk, t) ==
    LET candidates == { r \in tbl : r.last_retry < t - 2^(r.retries)
                                      /\ r.id \notin lk }
    IN  IF candidates = {} THEN NoJob
        ELSE (CHOOSE r \in candidates : \A q \in candidates : r.id >= q.id).id

\* find_next_unlocked_job: the row of least id among those whose backoff has
\* elapsed and that no other session has locked (FOR UPDATE SKIP LOCKED), or
\* NoJob.
find_next_unlocked_job(tbl, lk, t) ==
    LET candidates == { r \in tbl : Eligible(r, t) /\ r.id \notin lk }
    IN  IF candidates = {} THEN NoJob
        ELSE (CHOOSE r \in candidates : \A q \in candidates : r.id <= q.id).id

\* delete_successful_job: the table without the row.
delete_successful_job(tbl, id) == { r \in tbl : r.id # id }

\* update_failed_job: retries = retries + 1, last_retry = now().
update_failed_job(tbl, id, t) ==
    { IF r.id = id THEN [r EXCEPT !.retries = r.retries + 1, !.last_retry = t]
                   ELSE r : r \in tbl }

\* A monotone failure counter: the rows that have ever failed.
failed_job_count_ever(tbl, t) == Cardinality({ r \in tbl : r.retries > 0 })

\* failed_job_count: the rows whose last_retry > now() - 1 minute.
failed_job_count(tbl, t) == Cardinality({ r \in tbl : r.last_retry > t - 1 })

\* enqueue: one more row, with the defaults of retries and last_retry.
Enqueue(jt) ==
    /\ EnvEvents < MaxEvents
    /\ table' = table \cup {[id |-> nextId, job_type |-> jt,
                             data |-> "payload", retries |-> 0,
                             last_retry |-> Epoch]}
    /\ nextId' = nextId + 1
    /\ history' = Noted("enqueue")
    /\ UNCHANGED <<locks, now, ticks, faults, queue, threads, panic_count, chan,
                   runs, main>>
    /\ UNCHANGED expansion

\* storage::enqueue with a document that is not the serialization of the job
\* type's payload, as a writer other than the type's own enqueue can insert.
EnqueueMalformed(jt) ==
    /\ EnvEvents < MaxEvents
    /\ table' = table \cup {[id |-> nextId, job_type |-> jt,
                             data |-> "malformed", retries |-> 0,
                             last_retry |-> Epoch]}
    /\ nextId' = nextId + 1
    /\ history' = Noted("enqueue")
    /\ UNCHANGED <<locks, now, ticks, faults, queue, threads, panic_count, chan,
                   runs, main>>
    /\ UNCHANGED expansion

\* The first minute in which the filter of find_next_unlocked_job lets the
\* row through.
EligibleFrom(r) == r.last_retry + Backoff(r.retries) + 1

\* now() advances: by a minute, or to the minute in which the backoff of some
\* row has elapsed.
Tick ==
    /\ EnvEvents < MaxEvents
    /\ \E t \in {now + 1} \cup { EligibleFrom(r) : r \in table } :
         /\ t > now
         /\ now' = t
    /\ ticks' = ticks + 1
    /\ history' = Noted("clock")
    /\ UNCHANGED <<table, locks, nextId, faults, queue, threads,
                   panic_count, chan, runs, main>>
    /\ UNCHANGED expansion

\* ------------------------------------------------------- the worker task
\* The thread that takes the next queued task: the pool's threads are
\* interchangeable, so it is the idle thread of least number.
NextThread(t) ==
    /\ queue # <<>>
    /\ t \in Threads
    /\ threads[t].pc = "idle"
    /\ \A u \in 1..(t - 1) : threads[u].pc # "idle"

\* The Ok(None) arm returning without its send.
SendingUnlessNoJob(ev, id, job_type) ==
    IF ev = "NoJobAvailable" THEN IdleThread
    ELSE [IdleThread EXCEPT !.pc = "send", !.run = Head(queue), !.ev = ev,
                            !.job = id, !.job_type = job_type,
                            !.conns = IF ev = "FailedToAcquireConnection"
                                      THEN 0 ELSE 1]

\* The task's connections kept checked out when its frames end.
drop_frames_forgetting(conns) == conns

\* The frames of a task end, by return or by unwinding: each PooledConnection
\* a frame owns is dropped, which returns it to the pool.
drop_frames(conns) == 0

\* The thread of a task that is over.
TaskOver(th) == [IdleThread EXCEPT !.conns = drop_frames(th.conns)]

\* The Ok(Some(j)) arm going on to the handler without its send.
SendingAfterHandler(ev, id, job_type) ==
    [IdleThread EXCEPT !.pc = IF ev = "Working" THEN "perform" ELSE "send",
                       !.run = Head(queue), !.ev = ev,
                       !.job = id, !.job_type = job_type,
                       !.conns = IF ev = "FailedToAcquireConnection"
                                 THEN 0 ELSE 1]

\* A task that is about to send an event.  Unless pool.get() failed, the task
\* owns the pooled connection conn, which lives until the closure ends.
Sending(ev, id, job_type) ==
    [IdleThread EXCEPT !.pc = "send", !.run = Head(queue), !.ev = ev,
                       !.job = id, !.job_type = job_type,
                       !.conns = IF ev = "FailedToAcquireConnection"
                                 THEN 0 ELSE 1]

\* The task starts and pool.get() returns Err(e).
AcquireConnectionFails(t) ==
    /\ NextThread(t)
    /\ EnvEvents < MaxEvents
    /\ threads' = [threads EXCEPT ![t] =
                     Sending("FailedToAcquireConnection", NoJob, "none")]
    /\ queue' = Tail(queue)
    /\ faults' = faults + 1
    /\ UNCHANGED <<table, locks, nextId, now, ticks, panic_count, chan,
                   runs, main, history>>
    /\ UNCHANGED expansion

\* The locking query run without a transaction around it: the row lock is gone
\* as soon as the query's own statement ends.
TransactionLocksDropped(lk, id) == lk

\* The row lock a worker's transaction holds from its locking query on:
\* conn.transaction(|| { find_next_unlocked_job(&conn) ... }).
TransactionLocks(lk, id) == lk \cup {id}

\* The task starts, gets its connection, opens its transaction, and the
\* locking query returns Ok(Some(j)): the row is now locked by this worker.
LockJob(t) ==
    LET id == find_next_unlocked_job(table, locks, now) IN
    /\ NextThread(t)
    /\ id # NoJob
    /\ locks' = TransactionLocks(locks, id)
    /\ threads' = [threads EXCEPT ![t] =
                     Sending("Working", id, Row(table, id).job_type)]
    /\ queue' = Tail(queue)
    /\ UNCHANGED <<table, nextId, now, ticks, faults, panic_count, chan, runs,
                   main, history>>
    /\ UNCHANGED expansion

\* The same, and the locking query returns Ok(None).
NoJobAvailable(t) ==
    /\ NextThread(t)
    /\ find_next_unlocked_job(table, locks, now) = NoJob
    /\ threads' = [threads EXCEPT ![t] = Sending("NoJobAvailable", NoJob, "none")]
    /\ queue' = Tail(queue)
    /\ history' = IF Head(queue) = runs THEN Noted("none") ELSE history
    /\ UNCHANGED <<table, locks, nextId, now, ticks, faults, panic_count, chan,
                   runs, main>>
    /\ UNCHANGED expansion

\* The same, and the locking query itself fails with Err(e); the closure
\* returns Err(RollbackTransaction).
ErrorLoadingJob(t) ==
    /\ NextThread(t)
    /\ EnvEvents < MaxEvents
    /\ threads' = [threads EXCEPT ![t] = Sending("ErrorLoadingJob", NoJob, "none")]
    /\ queue' = Tail(queue)
    /\ faults' = faults + 1
    /\ UNCHANGED <<table, locks, nextId, now, ticks, panic_count, chan,
                   runs, main, history>>
    /\ UNCHANGED expansion

\* The send, with a task whose transaction returned Err(RollbackTransaction)
\* panicking like one whose transaction returned any other error.
SendPanickingOnRollback(t) ==
    LET alive == ReceiverAlive(threads[t].run) IN
    /\ threads[t].pc = "send"
    /\ alive => Len(chan) < max_threads
    /\ chan' = IF alive THEN Append(chan, threads[t].ev) ELSE chan
    /\ threads' = [threads EXCEPT ![t] =
           IF threads[t].ev = "Working" THEN [@ EXCEPT !.pc = "perform"]
           ELSE IdleThread]
    /\ panic_count' = IF threads[t].ev = "ErrorLoadingJob" THEN panic_count + 1
                                                            ELSE panic_count
    /\ UNCHANGED <<table, locks, nextId, now, ticks, faults, queue, runs, main,
                   history>>
    /\ UNCHANGED expansion

\* A send whose error, once the receiver is dropped, is unwrapped: the task
\* panics, and its transaction is rolled back.
SendUnwrapping(t) ==
    LET alive == ReceiverAlive(threads[t].run) IN
    /\ threads[t].pc = "send"
    /\ alive => Len(chan) < max_threads
    /\ chan' = IF alive THEN Append(chan, threads[t].ev) ELSE chan
    /\ threads' = [threads EXCEPT ![t] =
           IF alive /\ threads[t].ev = "Working" THEN [@ EXCEPT !.pc = "perform"]
           ELSE IdleThread]
    /\ locks' = IF alive THEN locks ELSE locks \ {threads[t].job}
    /\ panic_count' = IF alive THEN panic_count ELSE panic_count + 1
    /\ UNCHANGED <<table, nextId, now, ticks, faults, queue, runs, main,
                   history>>
    /\ UNCHANGED expansion

\* A send that a dropped receiver never lets complete.
SendHeldByDroppedReceiver(t) ==
    /\ threads[t].pc = "send"
    /\ ReceiverAlive(threads[t].run)
    /\ Len(chan) < max_threads
    /\ chan' = Append(chan, threads[t].ev)
    /\ threads' = [threads EXCEPT ![t] =
           IF threads[t].ev = "Working" THEN [@ EXCEPT !.pc = "perform"]
           ELSE IdleThread]
    /\ UNCHANGED <<table, locks, nextId, now, ticks, faults, queue, panic_count,
                   runs, main, history>>
    /\ UNCHANGED expansion

\* Sender::send on the sync_channel of capacity max_threads: it blocks while
\* the buffer is full and the receiver lives, and its error, once the receiver
\* is dropped, is ignored.  After Working the task goes on to the handler;
\* otherwise the task is over: the commit of its empty transaction
\* (NoJobAvailable) or the rollback (ErrorLoadingJob) touches no row or lock,
\* and job_run_result is Ok(_) or Err(RollbackTransaction), so nothing panics.
Send(t) ==
    LET alive == ReceiverAlive(threads[t].run) IN
    /\ threads[t].pc = "send"
    /\ alive => Len(chan) < max_threads
    /\ chan' = IF alive THEN Append(chan, threads[t].ev) ELSE chan
    /\ threads' = [threads EXCEPT ![t] =
           IF threads[t].ev = "Working" THEN [@ EXCEPT !.pc = "perform"]
           ELSE TaskOver(@)]
    /\ UNCHANGED <<table, locks, nextId, now, ticks, faults, queue, panic_count,
                   runs, main, history>>
    /\ UNCHANGED expansion

\* perform_job handing the handler whatever the row holds.
perform_job_unchecked(v, data) == Perform

\* perform_job::<T>(data, env): the environment is downcast to the job's
\* environment type, the data deserialized to the payload, both with ?, and
\* then T::perform runs.
perform_job(v, data) ==
    IF v.env_type # RunnerEnv THEN {"environment"}
    ELSE IF data # "payload" THEN {"invalid"}
    ELSE Perform

\* The closure with a job type the registry lacks skipped as if it had run.
run_single_job_skipping(job_type, data) ==
    IF RegistryGet(job_type) = {} THEN {"ok"}
    ELSE UNION { perform_job(v, data) : v \in RegistryGet(job_type) }

\* The closure of run_single_job: the registry lookup, which fails with
\* "Unknown job type" when the tag has no entry, and then the entry's perform.
run_single_job(job_type, data) ==
    IF RegistryGet(job_type) = {} THEN {"unknown"}
    ELSE UNION { perform_job(v, data) : v \in RegistryGet(job_type) }

\* f(job) called without catch_unwind: a panic of the handler unwinds.
catch_unwind_missing(outcome) == outcome

\* catch_unwind(|| f(job)).map_err(try_to_extract_panic_info).and_then(|r| r):
\* a panic of the handler becomes the error "job panicked".
catch_unwind(outcome) == IF outcome = "panic" THEN "caught" ELSE outcome

\* The end of a transaction, by commit or rollback, releases its row lock.
ReleaseLock(lk, id) == lk \ {id}

\* The handler of the job type declares conn: &PgConnection.
TakesConnection(job_type) ==
    \E v \in RegistryGet(job_type) : v.connection_arg = "SingleConnection"

\* DieselPoolObj::with_connection: let conn = DieselPool::get(self)?, a
\* further pooled connection, owned until f(&conn) has returned or unwound.
with_connection(conns) == conns + 1

\* The perform wrapper of a handler that declares a connection calls
\* pool.with_connection(&|conn| body) and the pool hands out a connection:
\* the body runs.
WithConnection(t) ==
    /\ threads[t].pc = "perform"
    /\ TakesConnection(threads[t].job_type)
    /\ Row(table, threads[t].job).data = "payload"
    /\ threads' = [threads EXCEPT ![t].pc = "body",
                                   ![t].conns = with_connection(@)]
    /\ UNCHANGED <<table, locks, nextId, now, ticks, faults, queue,
                   panic_count, chan, runs, main, history>>
    /\ UNCHANGED expansion

\* What the dispatch of the task on thread t can come to: the closure's
\* outcomes, except that a handler still waiting in with_connection can only
\* fail, with the pool's error (get(self)?).
Outcomes(t) ==
    LET data == Row(table, threads[t].job).data IN
    IF threads[t].pc = "perform" /\ TakesConnection(threads[t].job_type)
          /\ data = "payload"
    THEN {"err"}
    ELSE run_single_job(threads[t].job_type, data)

\* The handler has run: result is Ok(()) or an error.  (A panic that nothing
\* caught unwinds out of the closure and the task: the transaction is rolled
\* back and the pool counts the panic.)  The handler's own connection, if it
\* had one, is dropped with with_connection's frame.
HandlerReturns(t) ==
    /\ threads[t].pc \in {"perform", "body"}
    /\ \E outcome \in Outcomes(t) :
         LET result == catch_unwind(outcome) IN
         IF result = "panic"
         THEN /\ threads' = [threads EXCEPT ![t] = TaskOver(@)]
              /\ locks' = ReleaseLock(locks, threads[t].job)
              /\ panic_count' = panic_count + 1
              /\ history' = Noted("rollback")
         ELSE /\ threads' = [threads EXCEPT
                    ![t].pc = "finalize",
                    ![t].result = result,
                    ![t].conns = IF threads[t].pc = "body" THEN @ - 1 ELSE @]
              /\ UNCHANGED <<locks, panic_count, history>>
    /\ UNCHANGED <<table, nextId, now, ticks, faults, queue, chan, runs, main>>
    /\ UNCHANGED expansion

\* The match with the Err arm left empty: a failed job is not updated.
FinalizeWithoutUpdate(tbl, result, id, t) ==
    IF result = "ok" THEN delete_successful_job(tbl, id) ELSE tbl

\* The match with the delete in both arms.
FinalizeAlwaysDeletes(tbl, result, id, t) == delete_successful_job(tbl, id)

\* The match with the Ok arm left empty: a successful job is not deleted.
FinalizeWithoutDelete(tbl, result, id, t) ==
    IF result = "ok" THEN tbl ELSE update_failed_job(tbl, id, t)

\* The match with both arms left empty.
FinalizeNothing(tbl, result, id, t) == tbl

\* The match with the update of a failed job issued twice.
FinalizeUpdatesTwice(tbl, result, id, t) ==
    IF result = "ok" THEN delete_successful_job(tbl, id)
    ELSE update_failed_job(update_failed_job(tbl, id, t), id, t)

\* match result: Ok(_) => delete_successful_job, Err(e) => update_failed_job,
\* as the table is once the transaction has committed.
Finalize(tbl, result, id, t) ==
    IF result = "ok" THEN delete_successful_job(tbl, id)
    ELSE update_failed_job(tbl, id, t)

\* The worker finalizes the job and its transaction commits: the write becomes
\* visible and the row lock is released at once.  job_run_result is Ok(_) and
\* the task ends.
Commit(t) ==
    /\ threads[t].pc = "finalize"
    /\ table' = Finalize(table, threads[t].result, threads[t].job, now)
    /\ locks' = ReleaseLock(locks, threads[t].job)
    /\ threads' = [threads EXCEPT ![t] = TaskOver(@)]
    /\ UNCHANGED <<nextId, now, ticks, faults, queue, panic_count, chan, runs,
                   main, history>>
    /\ UNCHANGED expansion

\* The transaction does not commit: either
\* storage::delete_successful_job(&conn, job_id)? returns the database's error
\* or the commit itself fails.  The transaction is rolled back, job_run_result
\* is Err(e) and the task panics with "Failed to update job": the pool counts
\* the panic.
FinalizeFails(t) ==
    /\ threads[t].pc = "finalize"
    /\ EnvEvents < MaxEvents
    /\ locks' = ReleaseLock(locks, threads[t].job)
    /\ threads' = [threads EXCEPT ![t] = TaskOver(@)]
    /\ panic_count' = panic_count + 1
    /\ history' = Noted("rollback")
    /\ faults' = faults + 1
    /\ UNCHANGED <<table, nextId, now, ticks, queue, chan, runs, main>>
    /\ UNCHANGED expansion

\* -------------------------------------------------- run_all_pending_jobs
\* let (sender, receiver) = channel::new(max_threads); pending_messages = 0.
RunStart ==
    /\ main.pc = "idle"
    /\ EnvEvents < MaxEvents
    /\ runs' = runs + 1
    /\ chan' = <<>>
    /\ main' = [main EXCEPT !.pc = "submit", !.pending_messages = 0,
                            !.run_result = "none", !.check = NoResult]
    /\ history' = {}
    /\ UNCHANGED <<table, locks, nextId, now, ticks, faults, queue, threads,
                   panic_count>>
    /\ UNCHANGED expansion

Max(a, b) == IF a >= b THEN a ELSE b

\* A turn with nothing pending queueing one task whatever the pool has free.
jobs_to_queue_single(pending_messages, available_threads) ==
    IF pending_messages = 0 THEN 1 ELSE available_threads

\* A turn queueing what the pool has free, nothing pending or not.
jobs_to_queue_available(pending_messages, available_threads) ==
    available_threads

\* The tasks one turn of the loop queues.
jobs_to_queue(pending_messages, available_threads) ==
    IF pending_messages = 0 THEN Max(available_threads, 1)
    ELSE available_threads

\* The turn with pending_messages = jobs_to_queue where the loop has +=: the
\* counter forgets the tasks of the earlier turns.
RunSubmitAssigning ==
    LET available_threads == max_threads - active_count
        n == jobs_to_queue(main.pending_messages, available_threads)
    IN
    /\ main.pc = "submit"
    /\ queue' = queue \o [i \in 1..n |-> runs]
    /\ main' = [main EXCEPT !.pc = "recv", !.pending_messages = n]
    /\ UNCHANGED <<table, locks, nextId, now, ticks, faults, threads, panic_count,
                   chan, runs, history>>
    /\ UNCHANGED expansion

\* One turn of the loop up to the receive: queue jobs_to_queue tasks, each with
\* a clone of this run's sender.
RunSubmit ==
    LET available_threads == max_threads - active_count
        n == jobs_to_queue(main.pending_messages, available_threads)
    IN
    /\ main.pc = "submit"
    /\ queue' = queue \o [i \in 1..n |-> runs]
    /\ main' = [main EXCEPT !.pc = "recv",
                            !.pending_messages = main.pending_messages + n]
    /\ UNCHANGED <<table, locks, nextId, now, ticks, faults, threads, panic_count,
                   chan, runs, history>>
    /\ UNCHANGED expansion

\* The return that also drops the tasks the pool has not started yet.
ReturnCancelling(result) ==
    /\ main' = [main EXCEPT !.pc = "idle", !.pending_messages = 0,
                            !.run_result = result]
    /\ chan' = <<>>
    /\ history' = {}
    /\ queue' = <<>>
    /\ UNCHANGED <<table, locks, nextId, now, ticks, faults, threads,
                   panic_count, runs>>
    /\ UNCHANGED expansion

\* run_all_pending_jobs returns: the receiver and its buffer are dropped.
Return(result) ==
    /\ main' = [main EXCEPT !.pc = "idle", !.pending_messages = 0,
                            !.run_result = result]
    /\ chan' = <<>>
    /\ history' = {}
    /\ UNCHANGED <<table, locks, nextId, now, ticks, faults, queue, threads,
                   panic_count, runs>>
    /\ UNCHANGED expansion

\* The Working arm returning Ok(()) as the NoJobAvailable arm does.
ReceiveWorkingReturns ==
    /\ main.pc = "recv"
    /\ chan # <<>>
    /\ Head(chan) = "Working"
    /\ Return("Ok")

\* Ok(Event::Working) => pending_messages -= 1
ReceiveWorking ==
    /\ main.pc = "recv"
    /\ chan # <<>>
    /\ Head(chan) = "Working"
    /\ chan' = Tail(chan)
    /\ main' = [main EXCEPT !.pc = "submit",
                            !.pending_messages = main.pending_messages - 1]
    /\ UNCHANGED <<table, locks, nextId, now, ticks, faults, queue, threads,
                   panic_count, runs, history>>
    /\ UNCHANGED expansion

\* Ok(Event::NoJobAvailable) => return Ok(())
ReceiveNoJobAvailable ==
    /\ main.pc = "recv"
    /\ chan # <<>>
    /\ Head(chan) = "NoJobAvailable"
    /\ Return("Ok")

\* The ErrorLoadingJob arm swallowing the error.
ReceiveErrorLoadingJobIgnored ==
    /\ main.pc = "recv"
    /\ chan # <<>>
    /\ Head(chan) = "ErrorLoadingJob"
    /\ Return("Ok")

\* Ok(Event::ErrorLoadingJob(e)) => return Err(FetchError::FailedLoadingJob(e))
ReceiveErrorLoadingJob ==
    /\ main.pc = "recv"
    /\ chan # <<>>
    /\ Head(chan) = "ErrorLoadingJob"
    /\ Return("FailedLoadingJob")

\* The FailedToAcquireConnection arm returning the error of the arm above it.
ReceiveFailedToAcquireConnectionAsLoadError ==
    /\ main.pc = "recv"
    /\ chan # <<>>
    /\ Head(chan) = "FailedToAcquireConnection"
    /\ Return("FailedLoadingJob")

\* Ok(Event::FailedToAcquireConnection(e)) =>
\*     return Err(FetchError::NoDatabaseConnection(e))
ReceiveFailedToAcquireConnection ==
    /\ main.pc = "recv"
    /\ chan # <<>>
    /\ Head(chan) = "FailedToAcquireConnection"
    /\ Return("NoDatabaseConnection")

\* Err(_) => return Err(FetchError::NoMessageReceived): job_start_timeout went
\* by with the channel empty.
ReceiveTimeout ==
    /\ main.pc = "recv"
    /\ chan = <<>>
    /\ Return("NoMessageReceived")

\* ------------------------------------------------- check_for_failed_jobs
\* check_for_failed_jobs is called and waits in thread_pool.join().
CheckStart ==
    /\ main.pc = "idle"
    /\ main' = [main EXCEPT !.pc = "join", !.check = NoResult]
    /\ UNCHANGED <<table, locks, nextId, now, ticks, faults, queue, threads,
                   panic_count, chan, runs, history>>
    /\ UNCHANGED expansion

\* A join that waits for the queued tasks to start, not for tasks to end.
JoinedOnceStarted == queue = <<>>

\* thread_pool.join() returns: no task is queued or running.
Joined == queue = <<>> /\ active_count = 0

\* A wait that joins the pool and does not look at its panic count.
wait_for_jobs_joining_only(panics) == "Ok"

\* wait_for_jobs: Err("<k> threads panicked") unless panic_count is 0.
wait_for_jobs(panics) == IF panics = 0 THEN "Ok" ELSE "threads panicked"

\* A check that reports that jobs failed, not how many: JobsFailed(1).
check_result_flag(panics, tbl, t) ==
    IF panics # 0 THEN [tag |-> "threads panicked", failed_jobs |-> 0]
    ELSE IF \A r \in tbl : ~(r.last_retry > t - 1)
    THEN [tag |-> "Ok", failed_jobs |-> 0]
    ELSE [tag |-> "JobsFailed", failed_jobs |-> 1]

\* A check that returns Ok(()) whatever the count read is.
check_result_without_count(panics, tbl, t) ==
    [tag |-> wait_for_jobs(panics), failed_jobs |-> 0]

\* What check_for_failed_jobs returns when the count can be read: the error
\* of wait_for_jobs, Ok(()) or Err(JobsFailed(failed_jobs)).
check_result(panics, tbl, t) ==
    LET failed_jobs == failed_job_count(tbl, t) IN
    IF wait_for_jobs(panics) # "Ok"
    THEN [tag |-> wait_for_jobs(panics), failed_jobs |-> 0]
    ELSE IF failed_jobs = 0 THEN [tag |-> "Ok", failed_jobs |-> 0]
    ELSE [tag |-> "JobsFailed", failed_jobs |-> failed_jobs]

\* A check that takes the pool's panic count: it reports the count and leaves
\* it at 0.
check_for_failed_jobs_resetting ==
    /\ main.pc = "join"
    /\ Joined
    /\ main' = [main EXCEPT !.pc = "idle",
                            !.check = check_result(panic_count, table, now)]
    /\ panic_count' = 0
    /\ UNCHANGED <<table, locks, nextId, now, ticks, faults, queue, threads,
                   chan, runs, history>>
    /\ UNCHANGED expansion

\* check_for_failed_jobs returns check_result(panic_count, table, now).
check_for_failed_jobs ==
    /\ main.pc = "join"
    /\ Joined
    /\ main' = [main EXCEPT !.pc = "idle",
                            !.check = check_result(panic_count, table, now)]
    /\ UNCHANGED <<table, locks, nextId, now, ticks, faults, queue, threads,
                   panic_count, chan, runs, history>>
    /\ UNCHANGED expansion

\* check_for_failed_jobs returns the error of self.connection()? or of
\* storage::failed_job_count(..)?: no thread has panicked, and the pool or the
\* database fails the read of the count.
FailedJobCountFails ==
    /\ main.pc = "join"
    /\ Joined
    /\ wait_for_jobs(panic_count) = "Ok"
    /\ EnvEvents < MaxEvents
    /\ main' = [main EXCEPT !.pc = "idle",
                            !.check = [tag |-> "error", failed_jobs |-> 0]]
    /\ faults' = faults + 1
    /\ UNCHANGED <<table, locks, nextId, now, ticks, queue, threads,
                   panic_count, chan, runs, history>>
    /\ UNCHANGED expansion

\* ------------------------------------------------------------------ system
Worker(t) ==
    \/ AcquireConnectionFails(t)
    \/ LockJob(t)
    \/ NoJobAvailable(t)
    \/ ErrorLoadingJob(t)
    \/ Send(t)
    \/ HandlerReturns(t)
    \/ Commit(t)
    \/ FinalizeFails(t)

Next ==
    \/ \E jt \in JobTypes : Enqueue(jt)
    \/ Tick
    \/ \E t \in Threads : Worker(t)
    \/ RunStart
    \/ RunSubmit
    \/ ReceiveWorking
    \/ ReceiveNoJobAvailable
    \/ ReceiveErrorLoadingJob
    \/ ReceiveFailedToAcquireConnection
    \/ ReceiveTimeout
    \/ CheckStart
    \/ check_for_failed_jobs
    \/ FailedJobCountFails

Spec == Init /\ [][Next]_vars

\* The program with the handlers that declare a connection: their rows are
\* enqueued too, and such a handler's call of with_connection is a step.
PoolNext ==
    \/ Next
    \/ \E jt \in ConnectionJobTypes : Enqueue(jt)
    \/ \E t \in Threads : WithConnection(t)

PoolSpec == Init /\ [][PoolNext]_vars

\* The owner drops the runner between calls.  Runner has no Drop of its own:
\* its fields are dropped, and dropping the ThreadPool closes the pool's job
\* channel without joining its threads, which go on with the tasks already
\* submitted.  The drop returns at once; no call can follow it.
DropRunner ==
    /\ main.pc = "idle"
    /\ main' = [main EXCEPT !.pc = "dropped"]
    /\ UNCHANGED <<table, locks, nextId, now, ticks, faults, queue, threads,
                   panic_count, chan, runs, history>>
    /\ UNCHANGED expansion

\* The program with its teardown.
TeardownNext == Next \/ DropRunner

TeardownSpec == Init /\ [][TeardownNext]_vars

\* The program with rows whose data the job type cannot deserialize.
PayloadNext == Next \/ \E jt \in JobTypes : EnqueueMalformed(jt)

PayloadSpec == Init /\ [][PayloadNext]_vars

\* ------------------------------------------------ #[swirl::background_job]
\* The longest parameter list of a declaration.
MaxParams == 4

\* What a parameter of the declared function can be: self; a parameter whose
\* pattern is not a plain identifier; name: &mut T; name: &PgConnection;
\* name: &dyn DieselPoolObj; name: &T for another T; name: T for a T
\* that is no reference.  The parameter at position i is named by i, as the
\* names of a function's parameters are distinct.
ParamKinds ==
    {"Receiver", "Pattern", "MutReference", "PgConnection", "DieselPoolObj",
     "Reference", "Normal"}

\* The parameter lists (decl.inputs).
Decls == UNION { [1..n -> ParamKinds] : n \in 0..MaxParams }

\* The values a job's arguments and the runner's environment can have.
Values == {"a", "b"}

\* TestGuard::runner("a".to_string()): the environment of the runner.
RunnerEnvValue == "a"

\* ConnectionArg::from_arg of a reference to a connection-kind type.
ConnectionArgFromArg(kind, pat) ==
    IF kind = "PgConnection" THEN [kind |-> "SingleConnection", pat |-> pat]
    ELSE IF kind = "DieselPoolObj" THEN [kind |-> "Pool", pat |-> pat]
    ELSE [kind |-> "None", pat |-> 0]

\* Arg::try_from: a reference is the connection argument when its element
\* type is a connection kind and the environment otherwise (&mut is an
\* error); any other type is a normal argument.
ArgTryFrom(kind, pat) ==
    IF kind \in {"MutReference", "PgConnection", "DieselPoolObj", "Reference"}
    THEN IF kind = "MutReference"
         THEN [tag |-> "Err", error |-> "Unexpected mut"]
         ELSE IF kind \in {"PgConnection", "DieselPoolObj"}
              THEN [tag |-> "Connection", error |-> ""]
              ELSE [tag |-> "Env", error |-> ""]
    ELSE [tag |-> "Normal", error |-> ""]

\* return Err(span.error(..)).
Diagnostic(acc, message) == [acc EXCEPT !.error = message]

\* The match on (&env_arg, &connection_arg, arg) with the environment taken
\* from the first parameter only.
MatchArgEnvFirstOnly(acc, kind, i) ==
    LET arg == ArgTryFrom(kind, i) IN
    IF arg.tag = "Err" THEN Diagnostic(acc, arg.error)
    ELSE IF arg.tag = "Env"
    THEN IF i = 1 THEN [acc EXCEPT !.env_arg = i]
         ELSE Diagnostic(acc,
                  "Background jobs cannot take references as arguments")
    ELSE IF arg.tag = "Connection"
    THEN IF acc.connection_arg.kind = "None"
         THEN [acc EXCEPT !.connection_arg = ConnectionArgFromArg(kind, i)]
         ELSE Diagnostic(acc, "Multiple database connection arguments")
    ELSE [acc EXCEPT !.args = Append(@, i)]

\* The match with a later connection argument replacing the earlier one.
MatchArgLastConnection(acc, kind, i) ==
    LET arg == ArgTryFrom(kind, i) IN
    IF arg.tag = "Err" THEN Diagnostic(acc, arg.error)
    ELSE IF arg.tag = "Env"
    THEN IF acc.env_arg = 0 THEN [acc EXCEPT !.env_arg = i]
         ELSE Diagnostic(acc,
                  "Background jobs cannot take references as arguments")
    ELSE IF arg.tag = "Connection"
    THEN [acc EXCEPT !.connection_arg = ConnectionArgFromArg(kind, i)]
    ELSE [acc EXCEPT !.args = Append(@, i)]

\* The match with references pushed to args like any other argument.
MatchArgKeepingReferences(acc, kind, i) ==
    LET arg == ArgTryFrom(kind, i) IN
    IF arg.tag = "Err" THEN Diagnostic(acc, arg.error)
    ELSE [acc EXCEPT !.args = Append(@, i)]

\* match (&env_arg, &connection_arg, Arg::try_from(pat_type)?): the first
\* environment reference and the first connection argument are kept, a second
\* of either is an error, and a normal argument is pushed to args.
MatchArg(acc, kind, i) ==
    LET arg == ArgTryFrom(kind, i) IN
    IF arg.tag = "Err" THEN Diagnostic(acc, arg.error)
    ELSE IF arg.tag = "Env"
    THEN IF acc.env_arg = 0 THEN [acc EXCEPT !.env_arg = i]
         ELSE Diagnostic(acc,
                  "Background jobs cannot take references as arguments")
    ELSE IF arg.tag = "Connection"
    THEN IF acc.connection_arg.kind = "None"
         THEN [acc EXCEPT !.connection_arg = ConnectionArgFromArg(kind, i)]
         ELSE Diagnostic(acc, "Multiple database connection arguments")
    ELSE [acc EXCEPT !.args = Append(@, i)]

\* for fn_arg in decl.inputs, from parameter i on: a receiver and a pattern
\* that is no plain identifier are errors, then the match; the first error
\* returns.
RECURSIVE JobArgsLoop(_, _, _)
JobArgsLoop(decl, i, acc) ==
    IF i > Len(decl) THEN acc
    ELSE IF decl[i] = "Receiver"
    THEN Diagnostic(acc, "Background jobs cannot take self")
    ELSE IF decl[i] = "Pattern"
    THEN Diagnostic(acc, "#[swirl::background_job] cannot yet handle patterns")
    ELSE LET next == MatchArg(acc, decl[i], i) IN
         IF next.error # "" THEN next ELSE JobArgsLoop(decl, i + 1, next)

\* JobArgs::try_from(decl): Ok(JobArgs) with error = "", or the diagnostic.
JobArgsTryFrom(decl) == JobArgsLoop(decl, 1, EmptyJobArgs)

\* type Environment = #env_type: the element type of the environment
\* reference, named by its parameter, or () by EnvArg::default.
EnvType(job) ==
    IF job.env_arg = 0 THEN <<"()", 0>> ELSE <<"type of", job.env_arg>>

\* struct_def and names: the fields of mod name { pub struct Job }, one per
\* element of args, named as the parameter.
StructDef(job) == { job.args[k] : k \in 1..Len(job.args) }

\* serde_json::to_value(Job { .. }): the JSON object with one member per
\* field, keyed by the field's name.
Serialize(payload) == { <<name, payload[name]>> : name \in DOMAIN payload }

\* serde_json::from_value::<Job>(data): each field of the struct from the
\* member of its name.
Deserialize(data, fields) ==
    [name \in fields |-> (CHOOSE m \in data : m[1] = name)[2]]

\* Members are there for every field of the struct.
Deserializable(data, fields) == \A name \in fields : \E m \in data : m[1] = name

\* The perform wrapper: let Self { names } = self, the environment bound to
\* env_pat and the connection or pool to the connection argument's pattern;
\* what each parameter of the handler is bound to when its body runs.
Bindings(job, payload, env) ==
    [i \in StructDef(job) \cup ({job.env_arg, job.connection_arg.pat} \ {0}) |->
        IF i \in StructDef(job) THEN payload[i]
        ELSE IF i = job.env_arg THEN env
        ELSE job.connection_arg.kind]

\* A function is declared with #[swirl::background_job].
Declare(decl) ==
    /\ expansion.pc = "none"
    /\ expansion' = [expansion EXCEPT !.pc = "declared", !.decl = decl]
    /\ UNCHANGED <<table, locks, nextId, now, ticks, faults, queue, threads,
                   panic_count, chan, runs, main, history>>

\* expand(item): BackgroundJob::try_from(item)?, then the generated items.  A
\* diagnostic is a compile error and leaves no job definition.
Expand ==
    /\ expansion.pc = "declared"
    /\ LET job == JobArgsTryFrom(expansion.decl) IN
       expansion' = [expansion EXCEPT
                        !.pc = IF job.error = "" THEN "expanded" ELSE "rejected",
                        !.job = job]
    /\ UNCHANGED <<table, locks, nextId, now, ticks, faults, queue, threads,
                   panic_count, chan, runs, main, history>>

\* name(fn_args).enqueue(&conn): the helper takes the normal arguments, builds
\* Job { names } and the row's data is its serialization.
EnqueueJob ==
    /\ expansion.pc = "expanded"
    /\ \E values \in [StructDef(expansion.job) -> Values] :
          expansion' = [expansion EXCEPT !.pc = "enqueued", !.values = values,
                                        !.data = Serialize(values)]
    /\ UNCHANGED <<table, locks, nextId, now, ticks, faults, queue, threads,
                   panic_count, chan, runs, main, history>>

\* perform_job::<T>(data, env): the data is deserialized to the payload and
\* T::perform runs the handler's body with its parameters bound.
PerformJob ==
    /\ expansion.pc = "enqueued"
    /\ Deserializable(expansion.data, StructDef(expansion.job))
    /\ expansion' =
          [expansion EXCEPT
              !.pc = "performed",
              !.received =
                  Bindings(expansion.job,
                           Deserialize(expansion.data, StructDef(expansion.job)),
                           RunnerEnvValue)]
    /\ UNCHANGED <<table, locks, nextId, now, ticks, faults, queue, threads,
                   panic_count, chan, runs, main, history>>

\* The declaration of one background job, from its expansion to a dispatch.
MacroNext ==
    \/ \E decl \in Decls : Declare(decl)
    \/ Expand
    \/ EnqueueJob
    \/ PerformJob

MacroSpec == Init /\ [][MacroNext]_vars

\* The steps of the loop of run_all_pending_jobs.  recv_timeout returns with an
\* event or, once job_start_timeout has passed, without one, so the loop always
\* has a step to take.
Orchestrate ==
    \/ RunSubmit
    \/ ReceiveWorking
    \/ ReceiveNoJobAvailable
    \/ ReceiveErrorLoadingJob
    \/ ReceiveFailedToAcquireConnection
    \/ ReceiveTimeout

\* The program with its scheduling: the calling thread keeps running the loop,
\* and a pool thread that can take a step (start a queued task, send, end its
\* handler, commit) eventually takes one.  Nothing is assumed of the
\* surroundings: enqueues, the clock, faults and new calls may or may not come.
FairSpec ==
    /\ Init /\ [][Next]_vars
    /\ WF_vars(Orchestrate)
    /\ \A t \in Threads : WF_vars(Worker(t))

\* ------------------------------------------------------------------ claims
\* The rows the worker tasks hold: a task holds its row from the locking query
\* to the end of its transaction.
Held == { threads[t].job : t \in Threads } \ {NoJob}

\* C1: in every reachable state the rows locked by the open transactions of
\* two different worker tasks are distinct: no row is held by more than one
\* worker, and every row a worker holds or executes is locked.
C1_LockedRowsDistinct ==
    /\ \A t, u \in Threads :
         (t # u /\ threads[t].job # NoJob) => threads[t].job # threads[u].job
    /\ Held = locks

\* Two workers have their transactions open at once, each with a row of its
\* own, and both handlers are running.
C1_Witness ==
    \E t, u \in Threads :
        /\ t # u
        /\ threads[t].pc = "perform" /\ threads[u].pc = "perform"
        /\ threads[t].job # threads[u].job
        /\ {threads[t].job, threads[u].job} \subseteq locks

\* The step in which worker t, whose handler failed, ends its transaction and
\* so gives up the lock of its row.
ReleasesAfterFailure(t) ==
    /\ threads[t].pc = "finalize"
    /\ threads[t].result # "ok"
    /\ threads[t].job \notin locks'

\* C2 as stated: after a handler fails, whenever the row's lock is released the
\* row no longer carries the retry count it had before the attempt.
C2_Original ==
    [][\A t \in Threads : ReleasesAfterFailure(t) =>
          Row(table', threads[t].job).retries # Row(table, threads[t].job).retries]_vars

\* C2, amended: after a handler fails, the lock of the row is released either by
\* the commit that also contains the retries increment, or by the rollback of
\* a transaction that failed to commit, after which the row is unlocked with
\* its old retry count and the worker task has panicked.
C2_LockReleasedByCommitOrRollback ==
    [][\A t \in Threads : ReleasesAfterFailure(t) =>
          LET before == Row(table, threads[t].job)
              after  == Row(table', threads[t].job)
          IN  \/ /\ after.retries = before.retries + 1
                 /\ panic_count' = panic_count
              \/ /\ after = before
                 /\ panic_count' = panic_count + 1]_vars

\* A row whose handler failed is unlocked again, with its retry count raised,
\* and no task has panicked.
C2_Witness ==
    /\ panic_count = 0
    /\ \E r \in table : r.retries = 1 /\ r.id \notin locks /\ r.last_retry = now

\* C3: a step that removes a row from the table is the commit of the worker
\* transaction that locked the row and whose handler returned success; every
\* other step (an error, a panic, an unknown job type, a locking error, a
\* rollback) leaves each row in the table.
C3_DeletedOnlyAfterSuccess ==
    [][\A r \in table : r.id \notin Ids(table') =>
          \E t \in Threads :
              /\ threads[t].pc = "finalize"
              /\ threads[t].job = r.id
              /\ threads[t].result = "ok"
              /\ threads'[t] = IdleThread]_vars

\* Of two rows, one was deleted after its handler succeeded and the other is
\* still there after a failed attempt.
C3_Witness ==
    /\ nextId = 3
    /\ Cardinality(table) = 1
    /\ \E r \in table : r.retries = 1 /\ r.id \notin locks

\* The step in which the task of worker t, which holds a row, ends.
AttemptEnds(t) == threads[t].job # NoJob /\ threads'[t] = IdleThread

\* The attempt of worker t ends with its transaction committed: the task does
\* not panic.
AttemptCommits(t) == AttemptEnds(t) /\ panic_count' = panic_count

\* The attempt of worker t ends with its transaction rolled back: no row has
\* changed and the task has panicked.
AttemptRolledBack(t) ==
    AttemptEnds(t) /\ table' = table /\ panic_count' = panic_count + 1

\* An id the table has given out stays out of the table once its row is gone.
DeletedStaysDeleted ==
    \A id \in 1..(nextId - 1) : id \notin Ids(table) => id \notin Ids(table')

\* C4 as stated: when the task of an attempt whose handler returned success
\* has finished, the row is absent from the table.
C4_Original ==
    [][\A t \in Threads :
          (AttemptEnds(t) /\ threads[t].result = "ok")
              => threads[t].job \notin Ids(table')]_vars

\* C4, amended: for every attempt whose handler returns success and whose
\* transaction commits, the row is absent from the table once the task has
\* finished, and it stays absent; when the delete or the commit fails instead,
\* the task panics and the row is still in the table, unchanged.
C4_SuccessDeletesWhenCommitted ==
    [][/\ \A t \in Threads :
            (AttemptEnds(t) /\ threads[t].result = "ok") =>
                \/ AttemptCommits(t) /\ threads[t].job \notin Ids(table')
                \/ AttemptRolledBack(t)
       /\ DeletedStaysDeleted]_vars

\* A row was enqueued, its handler succeeded, and with no panic anywhere it
\* is gone and nothing is left to run.
C4_Witness ==
    /\ nextId > 1
    /\ table = {}
    /\ panic_count = 0
    /\ \A t \in Threads : threads[t].pc = "idle"

\* C5 as stated: a row that still exists after a worker attempt on it had
\* retries incremented by exactly 1 and last_retry set by that attempt.
C5_Original ==
    [][\A t \in Threads :
          (AttemptEnds(t) /\ threads[t].job \in Ids(table')) =>
              /\ Row(table', threads[t].job).retries =
                     Row(table, threads[t].job).retries + 1
              /\ Row(table', threads[t].job).last_retry = now]_vars

\* C5, amended: for every row that still exists after a worker attempt on it
\* whose transaction committed, that attempt incremented retries by exactly 1
\* and set last_retry to the time of the update, in the transaction that held
\* the row lock; an attempt whose transaction was rolled back leaves the row as
\* it was and its task panics; and no step changes retries or last_retry of a
\* row otherwise.
C5_RetriesAndLastRetryTogether ==
    [][/\ \A t \in Threads :
            (AttemptEnds(t) /\ threads[t].job \in Ids(table')) =>
                \/ /\ AttemptCommits(t)
                   /\ Row(table', threads[t].job).retries =
                          Row(table, threads[t].job).retries + 1
                   /\ Row(table', threads[t].job).last_retry = now
                \/ AttemptRolledBack(t)
       /\ \A r \in table :
            (r.id \in Ids(table') /\ Row(table', r.id) # r) =>
                /\ r.id \in locks
                /\ \E t \in Threads : threads[t].job = r.id /\ AttemptCommits(t)
                /\ Row(table', r.id) =
                       [r EXCEPT !.retries = r.retries + 1, !.last_retry = now]]_vars

\* A row has been attempted once and the clock has moved on since: the row
\* carries one retry and, as last_retry, the time of that attempt.
C5_Witness ==
    \E r \in table :
        /\ r.retries = 1
        /\ r.last_retry # Epoch
        /\ r.last_retry < now
        /\ r.id \notin locks

\* The row of worker t is kept with retries incremented exactly once.
RetriedOnce(t) ==
    /\ threads[t].job \in Ids(table')
    /\ Row(table', threads[t].job).retries = Row(table, threads[t].job).retries + 1

\* The handler of worker t ends, by returning or by panicking, and the task
\* goes on to finalize the job: the thread is alive and no panic is counted.
HandlerEndsInTask(t) ==
    /\ threads'[t].pc = "finalize"
    /\ threads'[t].job = threads[t].job
    /\ panic_count' = panic_count
    /\ UNCHANGED <<table, locks>>

\* C6 as stated: the attempt of a job whose handler panicked ends with the
\* thread pool's panic count as it was, the row kept and retries incremented
\* exactly once.
C6_Original ==
    [][\A t \in Threads :
          (AttemptEnds(t) /\ threads[t].result = "caught") =>
              panic_count' = panic_count /\ RetriedOnce(t)]_vars

\* C6, amended: a panic raised by a handler is caught inside the worker task:
\* the thread does not terminate and the panic count is not raised by it; when
\* the worker's transaction then commits, the row is kept and retries is
\* incremented exactly once for that attempt; when the commit fails instead,
\* the task panics and the row is kept with its old retries.
C6_HandlerPanicCaught ==
    [][\A t \in Threads :
          /\ (threads[t].pc = "perform" /\ threads'[t] # threads[t])
                => HandlerEndsInTask(t)
          /\ (AttemptEnds(t) /\ threads[t].result = "caught") =>
                \/ AttemptCommits(t) /\ RetriedOnce(t)
                \/ AttemptRolledBack(t)]_vars

\* A handler has panicked, the task is alive and about to finalize the job,
\* and the pool has counted no panic.
C6_Witness ==
    /\ panic_count = 0
    /\ \E t \in Threads :
          /\ threads[t].pc = "finalize"
          /\ threads[t].result = "caught"
          /\ threads[t].job \in Ids(table) \cap locks

\* Worker t holds a row whose job_type has no entry in the runner's registry.
UnknownJobType(t) ==
    threads[t].job # NoJob /\ RegistryGet(threads[t].job_type) = {}

\* C7 as stated: the attempt of a row whose job_type the registry lacks ends
\* with exactly one retries increment, the row kept and no panic.
C7_Original ==
    [][\A t \in Threads :
          (AttemptEnds(t) /\ UnknownJobType(t)) =>
              panic_count' = panic_count /\ RetriedOnce(t)]_vars

\* C7, amended: when a worker locks a row whose job_type has no entry in the
\* runner's registry and the worker's transaction commits, the attempt is an
\* ordinary job failure: exactly one retries increment on that row, the row
\* is not deleted, no worker thread panics and the thread is free for the next
\* task; when the commit fails instead, the task panics and the row is kept
\* with its old retries.
C7_UnknownJobTypeFails ==
    [][\A t \in Threads :
          /\ (threads[t].pc = "perform" /\ UnknownJobType(t)
                  /\ threads'[t] # threads[t])
                => HandlerEndsInTask(t) /\ threads'[t].result = "unknown"
          /\ (AttemptEnds(t) /\ UnknownJobType(t)) =>
                \/ AttemptCommits(t) /\ RetriedOnce(t)
                \/ AttemptRolledBack(t)]_vars

\* A row of a job type nobody registered has failed once, is unlocked again,
\* and no task has panicked.
C7_Witness ==
    /\ panic_count = 0
    /\ \E r \in table :
          /\ RegistryGet(r.job_type) = {}
          /\ r.retries = 1
          /\ r.id \notin locks
    /\ \A t \in Threads : threads[t].pc = "idle"

\* The step in which run_all_pending_jobs returns.
Returns(result) ==
    main.pc = "recv" /\ main'.pc = "idle" /\ main'.run_result = result

\* Every row a worker holds is in the table.
HeldRowsPresent == Held \subseteq Ids(table)

C9_Original ==
    [][\A result \in {"Ok", "FailedLoadingJob", "NoDatabaseConnection",
                       "NoMessageReceived"} :
          Returns(result) => (result = "Ok" <=> "none" \in history)]_vars

\* C9, amended: run_all_pending_jobs returns Ok only if, during the call, the
\* locking query of one of its workers found no eligible unlocked row, and it
\* does so exactly when the NoJobAvailable event of such a worker is the first
\* event other than Working that it receives; when an ErrorLoadingJob or
\* FailedToAcquireConnection event comes first, or the timeout, it returns
\* that error even though a worker found no row.
C9_OkIffNoJobAvailableReceived ==
    [][\A result \in {"Ok", "FailedLoadingJob", "NoDatabaseConnection",
                       "NoMessageReceived"} :
          Returns(result) =>
              /\ result = "Ok" <=> (chan # <<>> /\ Head(chan) = "NoJobAvailable")
              /\ result = "Ok" => "none" \in history]_vars

\* run_all_pending_jobs has returned Ok after a row was dispatched: the row is
\* locked and nothing else is eligible.
C9_Witness ==
    /\ main.pc = "idle"
    /\ main.run_result = "Ok"
    /\ locks # {}
    /\ find_next_unlocked_job(table, locks, now) = NoJob

\* C10: when the wait for an event times out, run_all_pending_jobs returns
\* NoMessageReceived and cancels nothing: the queued and the running tasks, the
\* table and the locks are as they were; and a queued task only ever leaves the
\* pool's queue by being started.
C10_TimeoutCancelsNothing ==
    [][/\ (main.pc = "recv" /\ chan = <<>> /\ main'.pc = "idle") =>
            /\ main'.run_result = "NoMessageReceived"
            /\ UNCHANGED <<queue, threads, table, locks, panic_count>>
       /\ (queue # <<>> /\ queue' # queue /\ Len(queue') <= Len(queue)) =>
            /\ queue' = Tail(queue)
            /\ \E t \in Threads :
                  threads[t].pc = "idle" /\ threads'[t].run = Head(queue)]_vars

\* After NoMessageReceived the jobs have completed successfully: every row
\* enqueued is gone and check_for_failed_jobs, past its join, returns Ok.
C10_Witness ==
    /\ main.pc = "join"
    /\ main.run_result = "NoMessageReceived"
    /\ Joined
    /\ nextId = 3
    /\ table = {}
    /\ check_result(panic_count, table, now).tag = "Ok"

\* What run_all_pending_jobs can return.
Results == {"Ok", "FailedLoadingJob", "NoDatabaseConnection", "NoMessageReceived"}

\* The events the current call's channel holds.
Received == { chan[i] : i \in 1..Len(chan) }

\* The task of worker t starts and comes to send ev.
Starts(t, ev) ==
    threads[t].pc = "idle" /\ threads'[t].pc = "send" /\ threads'[t].ev = ev

\* The task of worker t makes its send of ev.
Sends(t, ev) ==
    threads[t].pc = "send" /\ threads[t].ev = ev /\ threads'[t] # threads[t]

\* The step touches no row and no lock, no thread panics, and what
\* check_for_failed_jobs would report stays the same.
Untouched ==
    /\ UNCHANGED <<table, locks, panic_count>>
    /\ check_result(panic_count', table', now') = check_result(panic_count, table, now)

\* C11 as stated: when the locking query of a worker of the call has failed and
\* the worker has sent ErrorLoadingJob, run_all_pending_jobs returns
\* FailedLoadingJob.
C11_Original ==
    [][\A result \in Results :
          (Returns(result) /\ "ErrorLoadingJob" \in Received)
              => result = "FailedLoadingJob"]_vars

\* C11, amended: when a worker's locking query fails, the worker sends
\* ErrorLoadingJob and its task ends with the transaction rolled back
\* silently: no row is modified, no lock is held, no thread panics and what
\* check_for_failed_jobs reports is not changed by it; run_all_pending_jobs
\* returns FailedLoadingJob when that event is the first event other than
\* Working that it receives.
C11_LoadErrorIsSilent ==
    [][/\ \A t \in Threads :
            /\ Starts(t, "ErrorLoadingJob") =>
                  Untouched /\ threads'[t].job = NoJob
            /\ Sends(t, "ErrorLoadingJob") =>
                  /\ Untouched
                  /\ threads'[t] = IdleThread
                  /\ ReceiverAlive(threads[t].run)
                        => chan' = Append(chan, "ErrorLoadingJob")
       /\ (main.pc = "recv" /\ chan # <<>> /\ Head(chan) = "ErrorLoadingJob"
              /\ main' # main) => Returns("FailedLoadingJob")]_vars

\* A row was enqueued, the locking query failed, run_all_pending_jobs returned
\* FailedLoadingJob and the check_for_failed_jobs after it returned Ok: the row
\* is there as it was enqueued.
C11_Witness ==
    /\ main.pc = "idle"
    /\ main.run_result = "FailedLoadingJob"
    /\ main.check.tag = "Ok"
    /\ table # {}
    /\ \A r \in table : r.retries = 0 /\ r.last_retry = Epoch

\* C12 as stated: when a worker of the call could not obtain a connection and
\* has sent FailedToAcquireConnection, run_all_pending_jobs returns
\* NoDatabaseConnection.
C12_Original ==
    [][\A result \in Results :
          (Returns(result) /\ "FailedToAcquireConnection" \in Received)
              => result = "NoDatabaseConnection"]_vars

\* C12, amended: when a worker cannot obtain a connection from the pool, it
\* sends FailedToAcquireConnection and terminates without touching any
\* database state (no row locked, modified or deleted); run_all_pending_jobs
\* returns NoDatabaseConnection when that event is the first event other
\* than Working that it receives.
C12_NoConnectionTouchesNothing ==
    [][/\ \A t \in Threads :
            /\ Starts(t, "FailedToAcquireConnection") =>
                  Untouched /\ threads'[t].job = NoJob
            /\ Sends(t, "FailedToAcquireConnection") =>
                  /\ Untouched
                  /\ threads'[t] = IdleThread
                  /\ ReceiverAlive(threads[t].run)
                        => chan' = Append(chan, "FailedToAcquireConnection")
       /\ (main.pc = "recv" /\ chan # <<>>
              /\ Head(chan) = "FailedToAcquireConnection"
              /\ main' # main) => Returns("NoDatabaseConnection")]_vars

\* A row waits, a worker got no connection, and run_all_pending_jobs has
\* returned NoDatabaseConnection: the row is unlocked and as it was enqueued,
\* and every task is over.
C12_Witness ==
    /\ main.pc = "idle"
    /\ main.run_result = "NoDatabaseConnection"
    /\ table # {}
    /\ locks = {}
    /\ \A r \in table : r.retries = 0 /\ r.last_retry = Epoch
    /\ queue = <<>>
    /\ \A t \in Threads : threads[t].pc = "idle"

\* The events of runner/event.rs, by their tags.
Events ==
    {"Working", "NoJobAvailable", "ErrorLoadingJob", "FailedToAcquireConnection"}

SubmitsOnEmpty ==
    /\ main.pc = "submit" /\ main'.pc = "recv"
    /\ main.pending_messages = 0
    /\ table = {} /\ queue = <<>> /\ active_count = 0

\* A call returns having seen no row: the table is empty and nothing was
\* enqueued while it ran.
ReturnsOnEmpty(result) ==
    Returns(result) /\ table = {} /\ "enqueue" \notin history

\* C14 as stated: called on an empty queue with an idle pool,
\* run_all_pending_jobs submits exactly one worker task and returns success.
C14_Original ==
    [][/\ SubmitsOnEmpty => Len(queue') = 1
       /\ \A result \in Results : ReturnsOnEmpty(result) => result = "Ok"]_vars

\* C14: called on an empty queue with an idle pool, run_all_pending_jobs
\* submits one worker task per pool thread (thread_count tasks, one only when
\* thread_count = 1); it returns success when the first event it receives is
\* NoJobAvailable, and otherwise returns the error of a worker that could not
\* get a connection or load a job, or NoMessageReceived when no event came
\* before the timeout.
C14_EmptyQueueSubmitsPerThread ==
    [][/\ SubmitsOnEmpty =>
            /\ queue' = [i \in 1..thread_count |-> runs]
            /\ main'.pending_messages = thread_count
       /\ \A result \in Results : ReturnsOnEmpty(result) =>
            \/ chan = <<>> /\ result = "NoMessageReceived"
            \/ chan # <<>> /\ Head(chan) = "NoJobAvailable" /\ result = "Ok"
            \/ chan # <<>> /\ Head(chan) = "ErrorLoadingJob" /\ faults > 0
                  /\ result = "FailedLoadingJob"
            \/ chan # <<>> /\ Head(chan) = "FailedToAcquireConnection"
                  /\ faults > 0 /\ result = "NoDatabaseConnection"]_vars

\* The first call, on a table that never held a row, has returned Ok on the
\* first task's NoJobAvailable; the second task it submitted has yet to start.
C14_Witness ==
    /\ main.pc = "idle" /\ main.run_result = "Ok"
    /\ runs = 1 /\ nextId = 1 /\ faults = 0
    /\ queue = <<1>>
    /\ \A t \in Threads : threads[t].pc = "idle"

\* C15: with finitely many jobs and handlers that terminate, every call of
\* run_all_pending_jobs eventually returns, and no worker stays blocked in its
\* send: a task that has come to its send eventually gets past it, whether the
\* channel was full or its receiver has been dropped.  (A call leaves its loop
\* only by returning, so "always eventually out of the loop" says that every
\* call returns; likewise for the send.)
C15_CallReturnsNoSendBlocks ==
    /\ []<>(main.pc \notin {"submit", "recv"})
    /\ \A t \in Threads : []<>(threads[t].pc # "send")

\* A task of the running call stands at its send while the channel is full and
\* the orchestrator is at its receive.
C15_Witness ==
    /\ main.pc = "recv"
    /\ Len(chan) = max_threads
    /\ \E t \in Threads : threads[t].pc = "send" /\ threads[t].run = runs

\* check_for_failed_jobs returns.
CheckReturns == main.pc = "join" /\ main'.pc = "idle"

\* C16: check_for_failed_jobs returns only when no worker task is queued or
\* running: at its return the pool's queue is empty, every thread is idle and
\* no transaction holds a row, and it starts no task itself.
C16_CheckWaitsForAllTasks ==
    [][CheckReturns =>
         /\ queue = <<>>
         /\ \A t \in Threads : threads[t].pc = "idle"
         /\ locks = {}
         /\ UNCHANGED <<queue, threads, locks>>]_vars

\* check_for_failed_jobs is waiting in its join: both threads are in handlers
\* and a task of the timed-out call is still queued.
C16_Witness ==
    /\ main.pc = "join"
    /\ queue # <<>>
    /\ \A t \in Threads : threads[t].pc = "perform"

\* The rows failed_job_count counts: those whose last_retry lies within the
\* last minute.
RecentlyFailed == { r \in table : r.last_retry > now - 1 }

\* C17 as stated: check_for_failed_jobs returns the thread-panic error if any
\* thread panicked, and otherwise JobsFailed(n) if the failed-job count n is
\* above 0 and Ok if it is 0.
C17_Original ==
    [][CheckReturns =>
         main'.check =
            IF panic_count > 0
            THEN [tag |-> "threads panicked", failed_jobs |-> 0]
            ELSE IF Cardinality(RecentlyFailed) > 0
            THEN [tag |-> "JobsFailed",
                  failed_jobs |-> Cardinality(RecentlyFailed)]
            ELSE [tag |-> "Ok", failed_jobs |-> 0]]_vars

\* C17: check_for_failed_jobs decides in this order.  If any thread has
\* panicked it returns the thread-panic error and does not read the count.
\* Otherwise it reads the count: a failure to get a connection or to read
\* returns that error; a count n > 0 returns JobsFailed(n); a count of 0
\* returns Ok.
C17_CheckResultOrder ==
    [][CheckReturns =>
         IF panic_count > 0
         THEN /\ main'.check = [tag |-> "threads panicked", failed_jobs |-> 0]
              /\ faults' = faults
         ELSE \/ /\ faults' = faults + 1
                 /\ main'.check = [tag |-> "error", failed_jobs |-> 0]
              \/ /\ faults' = faults
                 /\ Cardinality(RecentlyFailed) > 0
                 /\ main'.check = [tag |-> "JobsFailed",
                                   failed_jobs |-> Cardinality(RecentlyFailed)]
              \/ /\ faults' = faults
                 /\ Cardinality(RecentlyFailed) = 0
                 /\ main'.check = [tag |-> "Ok", failed_jobs |-> 0]]_vars

\* A job has failed and its row is kept; no thread panicked and
\* check_for_failed_jobs has returned JobsFailed(1).
C17_Witness ==
    /\ main.pc = "idle"
    /\ panic_count = 0
    /\ main.check = [tag |-> "JobsFailed", failed_jobs |-> 1]
    /\ \E r \in table : r.retries = 1

\* The task on thread t ends with its finalizing delete or commit failed.
FinalizeFailed(t) ==
    threads[t].pc = "finalize" /\ threads'[t].pc = "idle" /\ faults' = faults + 1

\* C18: a database error in the delete of a successful job or in the commit
\* makes the task panic: the pool's panic count goes up by one, the
\* transaction is rolled back, so the row stays as it was before the attempt
\* (not deleted, retries and last_retry unchanged) and its lock is released.
\* The panic count never goes down, and every check_for_failed_jobs that
\* returns with a panic counted returns the thread-panic error.
C18_FinalizeErrorPanics ==
    [][/\ \A t \in Threads : FinalizeFailed(t) =>
            /\ panic_count' = panic_count + 1
            /\ table' = table
            /\ \E r \in table' : r.id = threads[t].job
            /\ locks' = ReleaseLock(locks, threads[t].job)
            /\ threads[t].job \notin Held'
       /\ panic_count' >= panic_count
       /\ (CheckReturns /\ panic_count > 0) =>
            main'.check = [tag |-> "threads panicked", failed_jobs |-> 0]]_vars

\* The one job's handler succeeded, its finalizing failed, and the next
\* check_for_failed_jobs has returned the thread-panic error; the row is as
\* it was enqueued and unlocked.
C18_Witness ==
    /\ main.pc = "idle"
    /\ main.check.tag = "threads panicked"
    /\ panic_count = 1 /\ faults = 1
    /\ locks = {}
    /\ \E r \in table : r.retries = 0 /\ r.last_retry = Epoch

\* The task on thread t has lost its receiver: the call that submitted it has
\* returned.
ReceiverDropped(t) == threads[t].pc # "idle" /\ ~ReceiverAlive(threads[t].run)

\* C19: a send never fails for the worker.  Whether or not the receiver lives,
\* the send step leaves the table, the locks and the panic count alone, and
\* the task goes on exactly alike: to the handler, with its job, after
\* Working, to its end after any other event; with the receiver dropped the
\* event goes nowhere.  A task whose receiver is dropped finalizes as any
\* other: its commit deletes the row of a successful job and gives the row of
\* a failed one retries + 1 and last_retry = now.
C19_SendNeverFails ==
    [][\A t \in Threads :
         /\ (threads[t].pc = "send" /\ threads'[t] # threads[t]) =>
               /\ threads'[t] = IF threads[t].ev = "Working"
                                 THEN [threads[t] EXCEPT !.pc = "perform"]
                                 ELSE IdleThread
               /\ UNCHANGED <<table, locks, panic_count>>
               /\ ReceiverDropped(t) => chan' = chan
         /\ (ReceiverDropped(t) /\ threads[t].pc = "perform"
                 /\ threads'[t] # threads[t]) =>
               /\ threads'[t].pc = "finalize"
               /\ UNCHANGED <<table, locks, panic_count>>
         /\ (ReceiverDropped(t) /\ threads[t].pc = "finalize"
                 /\ threads'[t] # threads[t] /\ faults' = faults) =>
               /\ threads'[t] = IdleThread
               /\ panic_count' = panic_count
               /\ locks' = locks \ {threads[t].job}
               /\ IF threads[t].result = "ok"
                  THEN table' = { r \in table : r.id # threads[t].job }
                  ELSE \E r \in table :
                         /\ r.id = threads[t].job
                         /\ table' = (table \ {r}) \cup
                               {[r EXCEPT !.retries = r.retries + 1,
                                          !.last_retry = now]}]_vars

\* The call has timed out and dropped its receiver; a task it submitted has
\* since locked a row and stands at its send of Working.
C19_Witness ==
    /\ main.pc = "idle"
    /\ main.run_result = "NoMessageReceived"
    /\ \E t \in Threads :
         /\ threads[t].pc = "send" /\ threads[t].ev = "Working"
         /\ threads[t].job \in locks
         /\ ReceiverDropped(t)

\* The locking query of the task on thread t returns the row with this id.
Returned(t, id) ==
    /\ threads[t].pc = "idle" /\ threads'[t].pc = "send"
    /\ threads'[t].ev = "Working" /\ threads'[t].job = id

\* C20: find_next_unlocked_job returns a row with retries = r only when
\* last_retry < now - 2^r, in minutes.  A row that has never failed
\* (retries = 0) has the default last_retry and passes that test at every
\* time; a row whose failure is being committed does not pass it at that
\* time, nor at any time up to last_retry + 2^retries.
C20_BackoffDoubles ==
    [][/\ \A t \in Threads : \A id \in 1..MaxEvents :
            Returned(t, id) =>
               \E r \in table :
                  r.id = id /\ r.last_retry < now - 2^(r.retries)
       /\ \A r \in table :
            r.retries = 0 => r.last_retry = Epoch /\ r.last_retry < now - 2^0
       /\ \A r \in table' :
            r.retries > 0 =>
               /\ r.last_retry <= now'
               /\ (r \notin table => r.last_retry = now')
               /\ (now' <= r.last_retry + 2^(r.retries)) =>
                     /\ ~(r.last_retry < now' - 2^(r.retries))
                     /\ \A t \in Threads : ~Returned(t, r.id)]_vars

\* A job failed once, its backoff of two minutes has elapsed, and the locking
\* query has returned its row again.
C20_Witness ==
    \E t \in Threads : \E r \in table :
        /\ threads[t].pc \in {"send", "perform"}
        /\ threads[t].job = r.id
        /\ r.retries = 1
        /\ r.last_retry < now - 2

\* The rows a locking query run now can return: backoff elapsed, and not
\* locked by another session.
Available ==
    { r \in table : r.last_retry < now - 2^(r.retries) /\ r.id \notin locks }

\* C21: the row a worker's locking query returns is the one of smallest id
\* among the rows whose backoff has elapsed and that no other session has
\* locked.  With two fresh jobs and the first worker still holding its lock,
\* the first worker got the first-inserted job and the second gets the
\* second.
C21_EarliestAvailableRow ==
    [][\A t \in Threads : \A id \in 1..MaxEvents :
         Returned(t, id) =>
            /\ \E r \in Available : r.id = id
            /\ \A r \in Available : id <= r.id
            /\ id \in locks'
            /\ (Ids(table) = {1, 2} /\ Available = table) => id = 1
            /\ (Ids(table) = {1, 2} /\ locks = {1}
                   /\ \A r \in table : r.retries = 0) => id = 2]_vars

\* Two jobs, two workers: the first worker holds the first-inserted row, still
\* locked, and the second worker holds the second.
C21_Witness ==
    /\ Ids(table) = {1, 2}
    /\ locks = {1, 2}
    /\ threads[1].job = 1 /\ threads[1].pc = "perform"
    /\ threads[2].job = 2 /\ threads[2].pc \in {"send", "perform"}

\* The task on thread t commits the success of a job that had failed before.
RetrySucceeds(t) ==
    /\ threads[t].pc = "finalize" /\ threads[t].result = "ok"
    /\ threads'[t].pc = "idle" /\ faults' = faults
    /\ \E r \in table : r.id = threads[t].job /\ r.retries > 0

\* C22: the count check_for_failed_jobs reads is the number of rows whose
\* last_retry lies within the last minute: only rows of the table, however
\* often they failed before.  A job that failed, was retried and succeeded is
\* not counted: the commit of its success removes the row, for good.
C22_CountsRecentFailures ==
    [][/\ (CheckReturns /\ panic_count = 0 /\ faults' = faults) =>
            LET n == Cardinality({ r \in table : now - r.last_retry < 1 }) IN
            /\ main'.check.failed_jobs = n
            /\ main'.check.tag = IF n = 0 THEN "Ok" ELSE "JobsFailed"
       /\ \A t \in Threads : RetrySucceeds(t) =>
            /\ threads[t].job \notin Ids(table')
            /\ \A r \in table' : r \in table
       /\ \A r \in table' : r.id \in Ids(table) \/ r.id = nextId]_vars

\* The one job failed at time 0, was retried once its two minutes had passed
\* (the clock's single step went to minute 3) and succeeded; the table is
\* empty and check_for_failed_jobs has returned Ok.
C22_Witness ==
    /\ main.pc = "idle"
    /\ main.check = [tag |-> "Ok", failed_jobs |-> 0]
    /\ nextId = 2 /\ table = {}
    /\ ticks = 1 /\ now = 3

\* The rows that have failed.
Failed == { r \in table : r.retries > 0 }

\* check_for_failed_jobs returns after a call that returned Ok, within the
\* failure window: the clock has not advanced since the jobs ran.
ChecksAfterOk == CheckReturns /\ main.run_result = "Ok" /\ ticks = 0

OtherEnvOnly ==
    { v.job_type : v \in { w \in Inventory : w.env_type # RunnerEnv } }
        \ { v.job_type : v \in { w \in Inventory : w.env_type = RunnerEnv } }

\* C24: the runner's registry holds the inventory's entries of its own
\* environment type and no others, and a job type registered only for another
\* environment type does not resolve: no handler runs for its row, the attempt
\* ends with the unknown-job-type error, and its commit keeps the row with
\* retries + 1.
C24_RegistryByEnvironment ==
    [][/\ \A v \in Inventory : v \in RegistryLoad <=> v.env_type = RunnerEnv
       /\ \A jt \in JobTypes :
            /\ \A v \in RegistryGet(jt) :
                  v \in Inventory /\ v.env_type = RunnerEnv /\ v.job_type = jt
            /\ jt \in OtherEnvOnly => RegistryGet(jt) = {}
       /\ \A t \in Threads :
            (threads[t].job_type \in OtherEnvOnly /\ threads'[t] # threads[t]) =>
               /\ threads[t].pc = "perform" =>
                     threads'[t].pc = "finalize" /\ threads'[t].result = "unknown"
               /\ (threads[t].pc = "finalize" /\ faults' = faults) =>
                     \E r \in table' :
                        /\ r.id = threads[t].job
                        /\ r.retries = Row(table, r.id).retries + 1]_vars

\* A row whose job type is registered for another environment type only has
\* been locked and dispatched; the attempt has the unknown-job-type error.
C24_Witness ==
    \E t \in Threads :
        /\ threads[t].pc = "finalize"
        /\ threads[t].job_type = "BarrierJob"
        /\ threads[t].job_type \in OtherEnvOnly
        /\ threads[t].result = "unknown"

\* The pooled connections that worker tasks have checked out.
RECURSIVE held(_)
held(S) ==
    IF S = {} THEN 0
    ELSE LET t == CHOOSE u \in S : TRUE IN threads[t].conns + held(S \ {t})

checked_out == held(Threads)

\* The task on thread t ends.
TaskEnds(t) == threads[t].pc # "idle" /\ threads'[t].pc = "idle"

\* C25: every connection a worker task acquires is returned to the pool
\* before the task ends, on every exit path (no job found, load error,
\* handler success or error, handler panic, finalize-failure panic): a task
\* that ends holds none, a thread without a task holds none, a handler that
\* returns or panics has given back the connection with_connection got for
\* it, a task that panics gives back what it held, and once all tasks have
\* finished no connection of a worker is checked out.
C25_ConnectionsReturned ==
    [][/\ \A t \in Threads :
            /\ TaskEnds(t) => threads'[t].conns = 0
            /\ threads[t].pc = "idle" => threads[t].conns = 0
            /\ (threads[t].pc = "body" /\ threads'[t].pc # "body") =>
                  /\ threads[t].conns = 2
                  /\ threads'[t].conns = IF TaskEnds(t) THEN 0 ELSE 1
            /\ (TaskEnds(t) /\ panic_count' = panic_count + 1) =>
                  threads[t].conns >= 1 /\ checked_out' < checked_out
       /\ Joined => checked_out = 0]_vars

\* A task panicked when its finalize failed, and in a later attempt the
\* handler, which had a connection of its own, panicked: that task is left
\* with the connection of its transaction, and no other is checked out.
C25_Witness ==
    /\ panic_count = 1 /\ faults = 1
    /\ checked_out = 1
    /\ \E t \in Threads :
          /\ threads[t].pc = "finalize" /\ threads[t].result = "caught"
          /\ threads[t].job_type \in ConnectionJobTypes
          /\ threads[t].conns = 1

\* C26: each job attempt holds exactly one pooled connection at any time, also
\* when its handler declares a connection parameter and is wrapped in
\* pool.with_connection; the connection is released when the attempt ends.
C26_OneConnectionPerAttempt ==
    \A t \in Threads :
        IF threads[t].job # NoJob THEN threads[t].conns = 1
        ELSE threads[t].pc = "idle" => threads[t].conns = 0

\* The body of a handler that declares a connection runs: its task holds the
\* connection of its transaction and the one with_connection got.
C26_TwoConnections ==
    \E t \in Threads :
        /\ threads[t].pc = "body" /\ threads[t].job # NoJob
        /\ threads[t].job_type \in ConnectionJobTypes
        /\ threads[t].conns = 2

\* C27: tearing down a runner blocks until every worker task that was
\* submitted to it has completed: when the drop has returned, no task is
\* queued or running.
C27_TeardownWaits == main.pc = "dropped" => Joined

\* The runner has been dropped after a call that returned Ok, and a task it
\* submitted is still running its handler, holding its row lock.
C27_DroppedWhileRunning ==
    /\ main.pc = "dropped" /\ main.run_result = "Ok"
    /\ \E t \in Threads :
          threads[t].pc = "perform" /\ threads[t].job \in locks

\* fn check_arg_equal_to_env(env: &String, arg: String): Ok(()) if env == &arg.
check_arg_equal_to_env(env, arg) == IF env = arg THEN "ok" ELSE "err"

\* The parameters of a declaration that are neither a reference nor rejected.
NormalParams(decl) == { i \in 1..Len(decl) : decl[i] = "Normal" }

\* C28: the generated payload record has exactly one field per handler
\* parameter that is neither the environment reference nor the connection or
\* pool parameter, and at dispatch the handler receives the enqueued values of
\* those parameters together with the runner's environment: with the
\* environment "a", check_arg_equal_to_env enqueued with "a" succeeds and
\* enqueued with "b" fails.
C28_PayloadIsTheOtherParameters ==
    LET decl == expansion.decl
        job == expansion.job
    IN  /\ expansion.pc \in {"expanded", "enqueued", "performed"} =>
              /\ StructDef(job) = NormalParams(decl)
              /\ Len(job.args) = Cardinality(NormalParams(decl))
              /\ \A i \in 1..Len(decl) :
                    i \in StructDef(job) <=>
                       (i # job.env_arg /\ i # job.connection_arg.pat)
        /\ expansion.pc \in {"enqueued", "performed"} =>
              DOMAIN expansion.values = NormalParams(decl)
        /\ expansion.pc = "performed" =>
              /\ DOMAIN expansion.received = 1..Len(decl)
              /\ \A i \in 1..Len(decl) :
                    /\ decl[i] = "Normal" =>
                          expansion.received[i] = expansion.values[i]
                    /\ decl[i] = "Reference" =>
                          expansion.received[i] = RunnerEnvValue
              /\ decl = <<"Reference", "Normal">> =>
                    (check_arg_equal_to_env(expansion.received[1],
                                            expansion.received[2]) = "ok"
                        <=> expansion.values[2] = "a")

\* check_arg_equal_to_env("b") has been dispatched by the runner whose
\* environment is "a": the handler has the environment and the enqueued "b",
\* and fails.
C28_Witness ==
    /\ expansion.pc = "performed"
    /\ expansion.decl = <<"Reference", "Normal">>
    /\ expansion.values[2] = "b"
    /\ expansion.received = <<"a", "b">>
    /\ check_arg_equal_to_env(expansion.received[1],
                              expansion.received[2]) = "err"

\* The macro has been through the declaration.
Expanded == expansion.pc \notin {"none", "declared"}

\* The parameters of the kinds given.
ParamsOf(decl, kinds) == { i \in 1..Len(decl) : decl[i] \in kinds }

\* A declaration the macro has nothing against: plain parameters, of which at
\* most one is a reference to no connection kind and at most one a
\* connection or pool.
WellFormed(decl) ==
    /\ ParamsOf(decl, {"Receiver", "Pattern", "MutReference"}) = {}
    /\ Cardinality(ParamsOf(decl, {"Reference"})) <= 1
    /\ Cardinality(ParamsOf(decl, {"PgConnection", "DieselPoolObj"})) <= 1

\* C29 as stated: the first parameter, if it is a reference, is the
\* environment; otherwise (first parameter not a reference, or no parameters)
\* the environment type is unit.
C29_Original ==
    (Expanded /\ expansion.job.error = "") =>
        IF Len(expansion.decl) >= 1
              /\ expansion.decl[1] \in
                    {"Reference", "PgConnection", "DieselPoolObj"}
        THEN expansion.job.env_arg = 1
        ELSE EnvType(expansion.job) = <<"()", 0>>

\* C29, amended: the environment is the parameter that is a reference to a
\* type other than a connection kind, at whatever position it stands; a
\* declaration without such a parameter has the unit environment type, also
\* when its first parameter is a reference to a connection or to the pool.
C29_EnvironmentIsTheOtherReference ==
    LET decl == expansion.decl
        job == expansion.job
        refs == ParamsOf(decl, {"Reference"})
    IN  /\ (Expanded /\ WellFormed(decl)) =>
              /\ job.error = ""
              /\ IF refs = {} THEN EnvType(job) = <<"()", 0>>
                 ELSE /\ job.env_arg \in refs
                      /\ EnvType(job) = <<"type of", job.env_arg>>
        /\ (Expanded /\ job.error = "") => WellFormed(decl)
        /\ (Expanded /\ job.error = "" /\ Len(decl) >= 1
               /\ decl[1] = "Reference") => job.env_arg = 1
        /\ expansion.pc = "performed" =>
              \A i \in refs : expansion.received[i] = RunnerEnvValue

\* A declaration whose second parameter is the environment has been expanded
\* and a job of it dispatched: the handler has the runner's environment there.
C29_Witness ==
    /\ expansion.pc = "performed"
    /\ expansion.decl = <<"Normal", "Reference">>
    /\ expansion.job.env_arg = 2
    /\ expansion.received[2] = RunnerEnvValue

\* The position of the second parameter of the kinds given, or one past the
\* list if there is none.
SecondOf(decl, kinds) ==
    LET S == ParamsOf(decl, kinds) IN
    IF Cardinality(S) < 2 THEN Len(decl) + 1
    ELSE CHOOSE i \in S : Cardinality({ j \in S : j < i }) = 1

\* The position of the first parameter of the kinds given, or one past the
\* list if there is none.
FirstOf(decl, kinds) ==
    LET S == ParamsOf(decl, kinds) IN
    IF S = {} THEN Len(decl) + 1 ELSE CHOOSE i \in S : \A j \in S : i <= j

ConnectionKinds == {"PgConnection", "DieselPoolObj"}

\* C30 as stated, for the parameter lists of plain parameters (no self, no
\* pattern, no &mut): two or more connection-kind parameters, in any
\* positions and of any mix, fail with "Multiple database connection
\* arguments", and a second reference to another type fails with "Background
\* jobs cannot take references as arguments".
C30_Original ==
    LET decl == expansion.decl IN
    (Expanded /\ ParamsOf(decl, {"Receiver", "Pattern", "MutReference"}) = {}) =>
        /\ Cardinality(ParamsOf(decl, ConnectionKinds)) >= 2 =>
              /\ expansion.pc = "rejected"
              /\ expansion.job.error = "Multiple database connection arguments"
        /\ Cardinality(ParamsOf(decl, {"Reference"})) >= 2 =>
              /\ expansion.pc = "rejected"
              /\ expansion.job.error =
                    "Background jobs cannot take references as arguments"

\* C30, amended: a declaration with two or more connection-kind parameters,
\* or with two or more references to other types, fails and leaves no job
\* definition; its diagnostic is that of the first parameter, in the order of
\* the list, that the macro rejects: "Multiple database connection arguments"
\* when that is the second connection-kind parameter, "Background jobs cannot
\* take references as arguments" when it is the second other reference.
C30_FirstOffendingParameter ==
    LET decl == expansion.decl
        job == expansion.job
        conn2 == SecondOf(decl, ConnectionKinds)
        ref2 == SecondOf(decl, {"Reference"})
        other == FirstOf(decl, {"Receiver", "Pattern", "MutReference"})
    IN  Expanded =>
          /\ (conn2 <= Len(decl) \/ ref2 <= Len(decl)) =>
                expansion.pc = "rejected" /\ job.error # ""
          /\ (conn2 < ref2 /\ conn2 < other) <=>
                job.error = "Multiple database connection arguments"
          /\ (ref2 < conn2 /\ ref2 < other) <=>
                job.error = "Background jobs cannot take references as arguments"
          /\ job.error # "" =>
                /\ expansion.pc = "rejected"
                /\ expansion.values = <<>> /\ expansion.data = {}
                /\ expansion.received = <<>>

\* Two environment references and then two connections: the declaration is
\* rejected for the second reference, not for the connections.
C30_Witness ==
    /\ expansion.pc = "rejected"
    /\ expansion.decl =
          <<"Reference", "Reference", "PgConnection", "DieselPoolObj">>
    /\ expansion.job.error =
          "Background jobs cannot take references as arguments"

\* The task on thread t goes from one place of its closure to another.
Moves(t, from, to) == threads[t].pc = from /\ threads'[t].pc = to

\* The task on thread t comes to a place of its closure.
Reaches(t, to) == threads[t].pc # to /\ threads'[t].pc = to

\* C31: within one worker attempt the steps are strictly ordered inside one
\* transaction: lock row, send Working, run handler, finalize, commit.  The
\* Working event of an attempt is sent after its row is locked and before its
\* handler starts, and the row stays locked by the attempt from the locking
\* query to the end of the transaction.
C31_AttemptStepsOrdered ==
    [][\A t \in Threads :
          /\ Reaches(t, "send") =>
                /\ threads[t].pc = "idle"
                /\ threads'[t].ev = "Working" <=> threads'[t].job # NoJob
                /\ threads'[t].job # NoJob =>
                      /\ threads'[t].job \notin locks
                      /\ threads'[t].job \in locks'
          /\ Reaches(t, "perform") =>
                /\ threads[t].pc = "send" /\ threads[t].ev = "Working"
                /\ threads[t].job \in locks
                /\ ReceiverAlive(threads[t].run) =>
                      chan' = Append(chan, "Working")
          /\ Reaches(t, "body") => threads[t].pc = "perform"
          /\ Reaches(t, "finalize") =>
                /\ threads[t].pc \in {"perform", "body"}
                /\ threads[t].job \in locks
                /\ table' = table
          /\ (threads[t].pc = "finalize" /\ threads'[t].pc # "finalize") =>
                /\ threads'[t].pc = "idle"
                /\ threads[t].job \in locks /\ threads[t].job \notin locks'
                /\ table' \in {table, Finalize(table, threads[t].result,
                                               threads[t].job, now)}
          /\ (threads[t].job # NoJob /\ threads'[t].pc # "idle") =>
                /\ threads'[t].job = threads[t].job
                /\ threads[t].job \in locks /\ threads[t].job \in locks'
          /\ (threads[t].job # NoJob /\ threads'[t].pc = threads[t].pc) =>
                \A r \in table : r.id = threads[t].job => r \in table']_vars

\* An attempt has locked its row, sent Working, which the caller has received,
\* and run its handler; it is about to finalize, the row still locked.
C31_Witness ==
    \E t \in Threads :
        /\ threads[t].pc = "finalize" /\ threads[t].ev = "Working"
        /\ threads[t].job \in locks /\ threads[t].job \in Ids(table)
        /\ threads[t].run = runs /\ main.pc = "recv" /\ chan = <<>>

\* The tasks this call has submitted whose event the caller has not received:
\* those the pool has not started, those that have not sent yet, and the
\* events in the channel.
Unreceived ==
    Cardinality({ i \in 1..Len(queue) : queue[i] = runs })
      + Cardinality({ t \in Threads :
                         threads[t].pc = "send" /\ threads[t].run = runs })
      + Len(chan)

\* C32: a turn of the loop submits max_threads - active_count tasks when
\* pending_messages > 0 and max(max_threads - active_count, 1) when it is 0;
\* hence whenever the caller waits on the channel, at least one task it
\* submitted has not had its event received, even when the pool is saturated.
C32_SubmitsAtLeastOneWhenNothingPending ==
    [][/\ (main.pc = "submit" /\ main'.pc = "recv") =>
             LET available == max_threads - active_count
                 submitted == Len(queue') - Len(queue)
             IN  /\ available >= 0
                 /\ main.pending_messages > 0 => submitted = available
                 /\ main.pending_messages = 0 =>
                       submitted = IF available >= 1 THEN available ELSE 1
                 /\ \A i \in 1..Len(queue') :
                       i > Len(queue) => queue'[i] = runs
                 /\ main'.pending_messages = main.pending_messages + submitted
       /\ main.pc = "recv" =>
             /\ main.pending_messages >= 1
             /\ Unreceived = main.pending_messages]_vars

\* Both threads are inside handlers and nothing was pending: the turn has
\* queued one task all the same, and the caller waits for its event.
C32_Witness ==
    /\ main.pc = "recv" /\ active_count = max_threads
    /\ \A t \in Threads : threads[t].pc = "perform"
    /\ queue = <<runs>> /\ chan = <<>>
    /\ main.pending_messages = 1

\* Worker t holds a row whose job type is registered and whose data does not
\* deserialize to the type's payload.
MalformedPayload(t) ==
    /\ threads[t].job # NoJob
    /\ RegistryGet(threads[t].job_type) # {}
    /\ Row(table, threads[t].job).data = "malformed"

\* C33 as stated: when the stored JSON does not deserialize to the declared
\* payload, the handler is never invoked and the attempt counts as an ordinary
\* job failure: retries incremented, row kept, no panic.
C33_Original ==
    [][\A t \in Threads :
          /\ (threads[t].pc = "perform" /\ MalformedPayload(t)
                  /\ threads'[t] # threads[t])
                => threads'[t].result = "invalid"
          /\ (AttemptEnds(t) /\ MalformedPayload(t)) =>
                panic_count' = panic_count /\ RetriedOnce(t)]_vars

\* C33, amended: perform checks the environment type, then deserializes the
\* payload, then invokes the handler.  When the stored JSON does not
\* deserialize, the handler is not invoked and the attempt ends with the
\* deserialization error; when the worker's transaction commits, that is an
\* ordinary job failure (retries incremented once, row kept, no panic); when
\* the commit fails, the task panics and the row is kept as it was.
C33_MalformedPayloadFails ==
    [][/\ \A v \in RegistryLoad :
            /\ perform_job(v, "malformed") = {"invalid"}
            /\ perform_job(v, "payload") = Perform
       /\ \A v \in Inventory \ RegistryLoad :
            \A data \in {"payload", "malformed"} :
               perform_job(v, data) = {"environment"}
       /\ \A t \in Threads :
            /\ (threads[t].pc = "perform" /\ MalformedPayload(t)
                    /\ threads'[t] # threads[t])
                  => HandlerEndsInTask(t) /\ threads'[t].result = "invalid"
            /\ (threads[t].pc = "finalize" /\ threads[t].result = "invalid") =>
                  MalformedPayload(t)
            /\ (AttemptEnds(t) /\ MalformedPayload(t)) =>
                  \/ AttemptCommits(t) /\ RetriedOnce(t)
                  \/ AttemptRolledBack(t)]_vars

\* A row with malformed data has been attempted and its transaction has
\* committed: the row is there with retries = 1, unlocked, and no thread has
\* panicked.
C33_Witness ==
    /\ panic_count = 0 /\ faults = 0
    /\ \A t \in Threads : threads[t].pc = "idle"
    /\ \E r \in table :
          /\ r.data = "malformed" /\ r.job_type = "DummyJob"
          /\ r.retries = 1 /\ r.id \notin locks

\* C34: for every locked job whose worker transaction commits, exactly one of
\* delete_successful_job and update_failed_job is applied to that row in that
\* transaction, never both and never neither: the row is either gone, after a
\* success, or there with one more retry, after a failure, and no other row
\* has changed.
C34_ExactlyOneOfDeleteAndUpdate ==
    [][\A t \in Threads :
          AttemptCommits(t) =>
             LET id == threads[t].job
                 deleted == delete_successful_job(table, id)
                 updated == update_failed_job(table, id, now)
             IN  /\ id \in Ids(table) /\ id \in locks
                 /\ deleted # updated /\ deleted # table /\ updated # table
                 /\ table' \in {deleted, updated}
                 /\ table' = deleted <=> threads[t].result = "ok"
                 /\ table' = updated =>
                       /\ id \in Ids(table')
                       /\ Row(table', id).retries = Row(table, id).retries + 1
                 /\ table' = deleted => id \notin Ids(table')
                 /\ \A r \in table : r.id # id => r \in table']_vars

\* Two attempts have committed, one after a success and one after a failure:
\* the first row is gone and the second is there with retries = 1.
C34_Witness ==
    /\ nextId = 3 /\ panic_count = 0 /\ faults = 0 /\ locks = {}
    /\ \A t \in Threads : threads[t].pc = "idle"
    /\ Ids(table) = {2}
    /\ \A r \in table : r.retries = 1

\* The row of worker t is, once its task is over, either gone or out of the
\* reach of find_next_unlocked_job in the minute the attempt ended in.
OutOfReach(t) ==
    threads[t].job \in Ids(table') =>
        ~Eligible(Row(table', threads[t].job), now')

\* C35 as stated: a row that was attempted is not locked again while the
\* clock stands: when the task of an attempt is over the row is gone or not
\* eligible.
C35_Original ==
    [][\A t \in Threads : AttemptEnds(t) => OutOfReach(t)]_vars

\* C35, amended: a row is locked only when it is eligible and unlocked; an
\* attempt whose transaction commits leaves its row gone or with last_retry =
\* now, which find_next_unlocked_job does not return until the clock has
\* advanced by more than the row's backoff; no step moves a row's last_retry
\* or retries back, nor the clock.  An attempt that is rolled back leaves its
\* row as it was, still eligible.
C35_CommittedAttemptNotRepeated ==
    [][/\ \A t \in Threads :
            /\ (Reaches(t, "send") /\ threads'[t].job # NoJob) =>
                  /\ threads'[t].job \notin locks
                  /\ Eligible(Row(table, threads'[t].job), now)
            /\ AttemptCommits(t) =>
                  /\ OutOfReach(t)
                  /\ threads[t].job \in Ids(table') =>
                        LET r == Row(table', threads[t].job) IN
                        /\ r.last_retry = now
                        /\ \A m \in now..(now + Backoff(r.retries)) :
                              find_next_unlocked_job(table', locks', m)
                                  # r.id
                        /\ Eligible(r, EligibleFrom(r))
            /\ AttemptRolledBack(t) =>
                  /\ Row(table', threads[t].job) = Row(table, threads[t].job)
                  /\ Eligible(Row(table', threads[t].job), now')
       /\ now' >= now
       /\ \A r \in table : \A q \in table' :
            q.id = r.id => /\ q.last_retry >= r.last_retry
                           /\ q.retries >= r.retries
                           /\ q # r => q.last_retry = now]_vars

\* In the first call, with the clock where it was, a row has failed, its
\* attempt has committed, and a later task of the same call has found no job
\* to lock although the row is there and unlocked.
C35_Witness ==
    /\ main.pc = "recv" /\ runs = 1 /\ ticks = 0 /\ faults = 0
    /\ history = {"none"}
    /\ locks = {}
    /\ \E r \in table : r.retries = 1 /\ r.last_retry = now

\* The task on thread t is blocked in its send: the buffer of the channel is
\* full and its receiver is alive.
BlockedInSend(t) ==
    /\ threads[t].pc = "send"
    /\ ReceiverAlive(threads[t].run)
    /\ Len(chan) >= max_threads

\* C36: a worker blocked in its send on a full channel is always eventually
\* released; once run_all_pending_jobs has returned its receiver is dropped
\* and every pending send can go through at once; so no task stays blocked on
\* the channel, and a check_for_failed_jobs waiting in its join always
\* eventually finds the pool with no task queued or running.
C36_BlockedSenderReleased ==
    /\ \A t \in Threads : []<>(~BlockedInSend(t))
    /\ [](main.pc \notin {"submit", "recv"} =>
             \A t \in Threads : threads[t].pc = "send" => ENABLED Send(t))
    /\ []<>(main.pc = "join" => Joined)

\* A task that holds a row is blocked in its send of Working: the channel of
\* the running call is full.
C36_Witness ==
    \E t \in Threads :
        /\ BlockedInSend(t)
        /\ threads[t].ev = "Working"
        /\ threads[t].job \in locks
        /\ ~ENABLED Send(t)

\* The error of wait_for_jobs as check_for_failed_jobs returns it.
ThreadsPanicked == [tag |-> "threads panicked", failed_jobs |-> 0]

\* C37: the thread pool's panic count is never reset: it changes only by one
\* more panic, so once it is above 0 it stays above 0; from then on the result
\* of check_for_failed_jobs changes only to the threads-panicked error (or to
\* none, at the start of the next call), every return of the check gives that
\* error without reading the count of failed jobs, and it would whatever the
\* table held.
C37_PanicCountNeverReset ==
    [][/\ panic_count' \in {panic_count, panic_count + 1}
       /\ panic_count > 0 =>
            /\ panic_count' > 0
            /\ main'.check # main.check =>
                  main'.check \in {NoResult, ThreadsPanicked}
            /\ CheckReturns =>
                  /\ main'.check = ThreadsPanicked
                  /\ faults' = faults
                  /\ \A tbl \in SUBSET table :
                        check_result(panic_count', tbl, now) = ThreadsPanicked]_vars

\* A task panicked at the commit of its job; a later attempt of the same job
\* succeeded and deleted the row; the check_for_failed_jobs called after that
\* has returned the threads-panicked error over an empty table.
C37_Witness ==
    /\ main.pc = "idle"
    /\ main.check = ThreadsPanicked
    /\ panic_count = 1 /\ faults = 1
    /\ nextId = 2 /\ table = {}
    /\ \A t \in Threads : threads[t].pc = "idle"

\* A call of run_all_pending_jobs is in its loop.
InLoop == main.pc \in {"submit", "recv"}

\* C38: pending_messages never underflows.  It starts at 0, grows in each
\* turn by the number of tasks the turn submits, falls by one for each Working
\* event received and changes at no other step of the call, so it is the
\* number submitted minus the number of Working events received; at every
\* receive it is at least 1 and at least the number of events waiting in the
\* channel, so the decrement is applied to a positive value and the counter
\* is never below 0.
C38_PendingMessagesNeverUnderflows ==
    [][/\ main.pending_messages >= 0 /\ main'.pending_messages >= 0
       /\ main.pc = "recv" => main.pending_messages >= 1
       /\ InLoop => main.pending_messages >= Len(chan)
       /\ (~InLoop /\ InLoop') => main'.pending_messages = 0
       /\ (main.pc = "submit" /\ InLoop' /\ main' # main) =>
             /\ main'.pc = "recv"
             /\ main'.pending_messages =
                    main.pending_messages + (Len(queue') - Len(queue))
             /\ chan' = chan
       /\ (main.pc = "recv" /\ InLoop') =>
             \/ main' = main /\ Len(chan') >= Len(chan)
             \/ /\ main'.pc = "submit"
                /\ chan # <<>> /\ Head(chan) = "Working" /\ chan' = Tail(chan)
                /\ main.pending_messages >= 1
                /\ main'.pending_messages = main.pending_messages - 1
                /\ queue' = queue
       /\ (main.pc = "submit" /\ main'.pc = "submit") =>
             main'.pending_messages = main.pending_messages]_vars

\* Two tasks were submitted and both their Working events have been received:
\* the counter is back at 0 with both handlers running, and the next turn has
\* to submit a task to have an event to wait for.
C38_Witness ==
    /\ main.pc = "submit"
    /\ main.pending_messages = 0
    /\ chan = <<>> /\ queue = <<>>
    /\ \A t \in Threads : threads[t].pc = "perform" /\ threads[t].run = runs
====
